---- MODULE Spec2Model ----
(***************************************************************************)
(* Honeypot API: the intelligence extraction and classification subsystem. *)
(* Strings are TLA+ strings; a character is a string of length one.        *)
(***************************************************************************)
EXTENDS Integers, Sequences, FiniteSets, TLC

(***************************************************************************)
(* Bounds of the model.                                                    *)
(***************************************************************************)
\* entries of one category in the three records drawn as inputs of
\* merge_intelligence, taken together
MaxEntries == 4

(***************************************************************************)
(* Characters and the str methods the code uses.                           *)
(***************************************************************************)
UpperChars == "ABCDEFGHIJKLMNOPQRSTUVWXYZ"

LowerChars == "abcdefghijklmnopqrstuvwxyz"

Digits == {"0", "1", "2", "3", "4", "5", "6", "7", "8", "9"}

CharsOf(s) == {SubSeq(s, i, i) : i \in 1..Len(s)}

UpperSet == CharsOf(UpperChars)

LowerSet == CharsOf(LowerChars)

\* the characters str.strip() and the regex class \s treat as whitespace
Whitespace == {" ", "\t", "\n", "\r", "\f"}

CharAt(s, i) == SubSeq(s, i, i)

\* Body of value, value being computed once: an assignment to a local name
With(value, Body(_)) == Body(value)

LowerMap == [c \in UpperSet |->
               LET i == CHOOSE j \in 1..Len(UpperChars) : CharAt(UpperChars, j) = c
               IN  CharAt(LowerChars, i)]

LowerChar(c) == IF c \in UpperSet THEN LowerMap[c] ELSE c

RECURSIVE Lower(_)
\* str.lower()
Lower(s) == IF s = "" THEN "" ELSE LowerChar(Head(s)) \o Lower(Tail(s))

RECURSIVE LStrip(_)
LStrip(s) == IF s # "" /\ Head(s) \in Whitespace THEN LStrip(Tail(s)) ELSE s

RECURSIVE RStrip(_)
RStrip(s) ==
    IF s # "" /\ CharAt(s, Len(s)) \in Whitespace
    THEN RStrip(SubSeq(s, 1, Len(s) - 1))
    ELSE s

\* str.strip()
Strip(s) == RStrip(LStrip(s))

(***************************************************************************)
(* Evidence records: a dict from the eight category keys to lists of str.  *)
(***************************************************************************)
\* the key list of merge_intelligence, in its order
KeyList == <<"phoneNumbers", "bankAccounts", "upiIds", "phishingLinks",
             "emailAddresses", "caseIds", "policyNumbers", "orderNumbers">>

Keys == {KeyList[i] : i \in 1..Len(KeyList)}

\* the dict with the eight keys that holds values[key] under each key
IntelDict(values) ==
    [phoneNumbers |-> values["phoneNumbers"],
     bankAccounts |-> values["bankAccounts"],
     upiIds |-> values["upiIds"],
     phishingLinks |-> values["phishingLinks"],
     emailAddresses |-> values["emailAddresses"],
     caseIds |-> values["caseIds"],
     policyNumbers |-> values["policyNumbers"],
     orderNumbers |-> values["orderNumbers"]]

empty_intel == IntelDict([key \in Keys |-> <<>>])

\* norm = item.strip().lower()
Norm(item) == Lower(Strip(item))

RECURSIVE MergeLoopNoDedup(_, _, _)
\* the loop without the seen-set test: every item is appended
MergeLoopNoDedup(items, seen, combined) ==
    IF items = <<>> THEN combined
    ELSE MergeLoopNoDedup(Tail(items), seen \cup {Norm(Head(items))},
                          Append(combined, Strip(Head(items))))

RECURSIVE MergeLoopRawSeen(_, _, _)
\* the loop with seen holding the items as spelled instead of their normalized forms
MergeLoopRawSeen(items, seen, combined) ==
    IF items = <<>> THEN combined
    ELSE LET item == Head(items)
         IN  IF item \notin seen
             THEN MergeLoopRawSeen(Tail(items), seen \cup {item}, Append(combined, Strip(item)))
             ELSE MergeLoopRawSeen(Tail(items), seen, combined)

RECURSIVE MergeLoopNoStrip(_, _, _)
\* the loop appending the item as spelled instead of item.strip()
MergeLoopNoStrip(items, seen, combined) ==
    IF items = <<>> THEN combined
    ELSE LET item == Head(items)
             norm == Norm(item)
         IN  IF norm \notin seen
             THEN MergeLoopNoStrip(Tail(items), seen \cup {norm}, Append(combined, item))
             ELSE MergeLoopNoStrip(Tail(items), seen, combined)

RECURSIVE MergeLoop(_, _, _)
\* for item in list(existing_list) + list(new_list): ... (every item is a str)
MergeLoop(items, seen, combined) ==
    IF items = <<>> THEN combined
    ELSE LET item == Head(items)
             norm == Norm(item)
         IN  IF norm \notin seen
             THEN MergeLoop(Tail(items), seen \cup {norm}, Append(combined, Strip(item)))
             ELSE MergeLoop(Tail(items), seen, combined)

\* the merge of one category reading the existing list only
MergeListExistingOnly(existing_list, new_list) == MergeLoop(existing_list, {}, <<>>)

\* one category of merge_intelligence
MergeList(existing_list, new_list) == MergeLoop(existing_list \o new_list, {}, <<>>)

\* merge_intelligence keeping every entry of both lists
merge_intelligence_concat(existing, new) ==
    IntelDict([key \in Keys |-> existing[key] \o new[key]])

merge_intelligence(existing, new) ==
    IntelDict([key \in Keys |-> MergeList(existing[key], new[key])])

(***************************************************************************)
(* Regular expressions of the re module, as far as the code uses them.     *)
(* A pattern is a tree of records; Ends gives, in the order in which the   *)
(* backtracking matcher of re tries them, the positions at which a match   *)
(* of the pattern that starts at position i can end (a position is the     *)
(* index of the next character to read, from 1 to Len(s) + 1).             *)
(***************************************************************************)
\* \w for the texts of the model (ASCII)
WordChars == UpperSet \cup LowerSet \cup Digits \cup {"_"}

Set(S) == [t |-> "set", s |-> S]

NotSet(S) == [t |-> "nset", s |-> S]

Lit(str) == [t |-> "lit", str |-> str]

Cat(parts) == [t |-> "cat", parts |-> parts]

Alt(parts) == [t |-> "alt", parts |-> parts]

\* greedy repetition r{min,max}
Rep(r, min, max) == [t |-> "rep", r |-> r, min |-> min, max |-> max]

\* stands for "no upper limit" in *, + and {n,}
Unbounded == 1000000

Opt(r) == Rep(r, 0, 1)

Star(r) == Rep(r, 0, Unbounded)

Plus(r) == Rep(r, 1, Unbounded)

\* (?<!c) and (?!c) for a one-character pattern c
NotBehind(c) == [t |-> "nlb", c |-> c]

NotAhead(c) == [t |-> "nla", c |-> c]

\* \b
WordBoundary == [t |-> "wb"]

Empty == Cat(<<>>)

UpperMap == [c \in LowerSet |->
               LET i == CHOOSE j \in 1..Len(LowerChars) : CharAt(LowerChars, j) = c
               IN  CharAt(UpperChars, i)]

SwapCase(c) ==
    IF c \in UpperSet THEN LowerMap[c] ELSE IF c \in LowerSet THEN UpperMap[c] ELSE c

\* does character c match the one-character pattern r (ic: re.IGNORECASE)
CharMatches(r, c, ic) ==
    LET in == c \in r.s \/ (ic /\ SwapCase(c) \in r.s)
    IN  IF r.t = "set" THEN in ELSE ~in

IsWordAt(s, i) == i >= 1 /\ i <= Len(s) /\ CharAt(s, i) \in WordChars

\* s1 without the positions that are in s2 already, appended to s2
RECURSIVE AppendNew(_, _)
AppendNew(s2, s1) ==
    IF s1 = <<>> THEN s2
    ELSE IF \E k \in 1..Len(s2) : s2[k] = Head(s1)
         THEN AppendNew(s2, Tail(s1))
         ELSE AppendNew(Append(s2, Head(s1)), Tail(s1))

\* does the literal str match s at position i
LitMatches(str, s, i, ic) ==
    /\ i + Len(str) - 1 <= Len(s)
    /\ \A n \in 1..Len(str) : CharMatches(Set({CharAt(str, n)}), CharAt(s, i + n - 1), ic)

\* the number of characters from position i on that match the one-character
\* pattern c, max at most
RunLength(c, s, i, max, ic) ==
    LET limit == IF Len(s) - i + 1 < max THEN Len(s) - i + 1 ELSE max
    IN  CHOOSE n \in 0..limit :
            /\ \A k \in 0..(n - 1) : CharMatches(c, CharAt(s, i + k), ic)
            /\ n < limit => ~CharMatches(c, CharAt(s, i + n), ic)

RECURSIVE Ends(_, _, _, _)
RECURSIVE CatEnds(_, _, _, _, _)
RECURSIVE AltEnds(_, _, _, _, _, _)
RECURSIVE RepEnds(_, _, _, _, _)
RECURSIVE RepFrom(_, _, _, _, _, _)
RECURSIVE EndsFromAll(_, _, _, _, _, _)

Ends(r, s, i, ic) ==
    CASE r.t \in {"set", "nset"} ->
            IF i <= Len(s) /\ CharMatches(r, CharAt(s, i), ic) THEN <<i + 1>> ELSE <<>>
      [] r.t = "lit" -> IF LitMatches(r.str, s, i, ic) THEN <<i + Len(r.str)>> ELSE <<>>
      [] r.t = "cat" -> CatEnds(r.parts, 1, s, <<i>>, ic)
      [] r.t = "alt" -> AltEnds(r.parts, 1, Len(r.parts), s, i, ic)
      [] r.t = "rep" ->
            IF r.r.t \in {"set", "nset"}
            THEN \* a run of single characters: the longest first, down to min
                 LET run == RunLength(r.r, s, i, r.max, ic)
                 IN  IF run < r.min THEN <<>>
                     ELSE [n \in 1..(run - r.min + 1) |-> i + run - n + 1]
            ELSE RepEnds(r, s, i, 0, ic)
      [] r.t = "nlb" ->
            IF i > 1 /\ CharMatches(r.c, CharAt(s, i - 1), ic) THEN <<>> ELSE <<i>>
      [] r.t = "nla" ->
            IF i <= Len(s) /\ CharMatches(r.c, CharAt(s, i), ic) THEN <<>> ELSE <<i>>
      [] r.t = "wb" ->
            IF IsWordAt(s, i - 1) # IsWordAt(s, i) THEN <<i>> ELSE <<>>

\* the ends of r from each of the positions starts[lo..hi], in order
\* (the range is halved to keep the evaluation shallow)
EndsFromAll(r, s, starts, lo, hi, ic) ==
    IF lo > hi THEN <<>>
    ELSE IF lo = hi THEN Ends(r, s, starts[lo], ic)
    ELSE LET mid == (lo + hi) \div 2
         IN  AppendNew(EndsFromAll(r, s, starts, lo, mid, ic),
                       EndsFromAll(r, s, starts, mid + 1, hi, ic))

CatEnds(parts, k, s, starts, ic) ==
    IF k > Len(parts) \/ starts = <<>> THEN starts
    ELSE CatEnds(parts, k + 1, s, EndsFromAll(parts[k], s, starts, 1, Len(starts), ic), ic)

\* the ends of the alternatives parts[lo..hi], in their order
AltEnds(parts, lo, hi, s, i, ic) ==
    IF lo > hi THEN <<>>
    ELSE IF lo = hi THEN Ends(parts[lo], s, i, ic)
    ELSE LET mid == (lo + hi) \div 2
         IN  AppendNew(AltEnds(parts, lo, mid, s, i, ic), AltEnds(parts, mid + 1, hi, s, i, ic))

\* greedy: one more repetition first, then stopping here (n repetitions done)
RepEnds(r, s, i, n, ic) ==
    LET more == IF n < r.max THEN RepFrom(r, s, Ends(r.r, s, i, ic), i, n, ic) ELSE <<>>
    IN  IF n >= r.min THEN AppendNew(more, <<i>>) ELSE more

\* the continuations of the repetition from each end js of its (n+1)-th round
RepFrom(r, s, js, i, n, ic) ==
    IF js = <<>> THEN <<>>
    ELSE LET rest == RepFrom(r, s, Tail(js), i, n, ic)
         IN  IF Head(js) = i THEN rest
             ELSE AppendNew(RepEnds(r, s, Head(js), n + 1, ic), rest)

RECURSIVE FirstGroup(_, _, _, _, _)
\* the first way, in the matcher's order, to match grp then post from one of
\* the positions js: <<start of grp, end of grp, end of match>>, or <<>>
FirstGroup(grp, post, s, js, ic) ==
    IF js = <<>> THEN <<>>
    ELSE With(Ends(grp, s, Head(js), ic), LAMBDA es :
         With({k \in 1..Len(es) : Ends(post, s, es[k], ic) # <<>>}, LAMBDA ok :
             IF ok # {}
             THEN With(CHOOSE x \in ok : \A y \in ok : x <= y, LAMBDA k :
                      <<Head(js), es[k], Ends(post, s, es[k], ic)[1]>>)
             ELSE FirstGroup(grp, post, s, Tail(js), ic)))

\* a pattern pre(grp)post with one capturing group
Pattern(pre, grp, post, ic) == [pre |-> pre, grp |-> grp, post |-> post, ic |-> ic]

\* the match of pattern p that starts at position i: <<i, start of group,
\* end of group, end of match>>, or <<>>
MatchAt(p, s, i) ==
    With(FirstGroup(p.grp, p.post, s, Ends(p.pre, s, i, p.ic), p.ic), LAMBDA g :
        IF g = <<>> THEN <<>> ELSE <<i>> \o g)

RECURSIVE ScanFrom(_, _, _)
\* the non-overlapping matches of p in s from position i on, left to right
ScanFrom(p, s, i) ==
    With({x \in i..(Len(s) + 1) : MatchAt(p, s, x) # <<>>}, LAMBDA at :
        IF at = {} THEN <<>>
        ELSE With(CHOOSE x \in at : \A y \in at : x <= y, LAMBDA first :
             With(MatchAt(p, s, first), LAMBDA m :
                 <<m>> \o ScanFrom(p, s, IF m[4] > first THEN m[4] ELSE first + 1))))

\* re.finditer(p, s): m.group() of each match
FindIter(p, s) ==
    With(ScanFrom(p, s, 1), LAMBDA ms : [n \in 1..Len(ms) |-> SubSeq(s, ms[n][1], ms[n][4] - 1)])

\* re.findall(p, s) for a pattern with one group: group 1 of each match
FindAll(p, s) ==
    With(ScanFrom(p, s, 1), LAMBDA ms : [n \in 1..Len(ms) |-> SubSeq(s, ms[n][2], ms[n][3] - 1)])

\* re.search(p, s) is not None
Search(p, s) == \E i \in 1..(Len(s) + 1) : MatchAt(p, s, i) # <<>>

(***************************************************************************)
(* The extractors of extractor.py.                                         *)
(***************************************************************************)
D == Set(Digits)

\* [-.·\s] (the texts of the model hold no U+00B7)
PhoneSep == Set({"-", "."} \cup Whitespace)

\* [.\s#:_-]
LabelSep == Set({".", "#", ":", "_", "-"} \cup Whitespace)

NoGroup(r, ic) == Pattern(Empty, r, Empty, ic)

RECURSIVE DigitsOf(_)
\* re.sub(r'\D', '', s)
DigitsOf(s) ==
    IF s = "" THEN ""
    ELSE IF Head(s) \in Digits THEN Head(s) \o DigitsOf(Tail(s)) ELSE DigitsOf(Tail(s))

RECURSIVE Concat(_)
\* the lists of a list of lists, one after the other
Concat(ls) == IF ls = <<>> THEN <<>> ELSE Head(ls) \o Concat(Tail(ls))

\* s in text
Contains(text, s) == \E i \in 1..(Len(text) - Len(s) + 1) : SubSeq(text, i, i + Len(s) - 1) = s

PhonePatterns == <<
    Cat(<<Lit("+91"), Opt(PhoneSep), Rep(D, 5, 5), Opt(PhoneSep), Rep(D, 5, 5)>>),
    Cat(<<Lit("+91"), Opt(PhoneSep), Rep(D, 10, 10)>>),
    Cat(<<NotBehind(D), Lit("91"), PhoneSep, Rep(D, 5, 5), Opt(PhoneSep), Rep(D, 5, 5)>>),
    Cat(<<NotBehind(D), Lit("91"), PhoneSep, Rep(D, 10, 10)>>),
    Cat(<<Lit("+"), Rep(D, 1, 3), Opt(PhoneSep), Opt(Lit("(")), Rep(D, 1, 5), Opt(Lit(")")),
          Opt(PhoneSep), Rep(D, 3, 5), Opt(PhoneSep), Rep(D, 3, 5)>>),
    Cat(<<NotBehind(D), Set({"6", "7", "8", "9"}), Rep(D, 9, 9), NotAhead(D)>>),
    Cat(<<NotBehind(D), Rep(D, 5, 5), PhoneSep, Rep(D, 5, 5), NotAhead(D)>>) >>

RECURSIVE PhoneLoop(_, _, _)
\* for m in matches: cleaned, digits, the length and seen_digits test
PhoneLoop(matches, seen_digits, results) ==
    IF matches = <<>> THEN results
    ELSE LET cleaned == Strip(Head(matches))
             digits == DigitsOf(cleaned)
         IN  IF 10 <= Len(digits) /\ Len(digits) <= 15 /\ digits \notin seen_digits
             THEN PhoneLoop(Tail(matches), seen_digits \cup {digits}, Append(results, cleaned))
             ELSE PhoneLoop(Tail(matches), seen_digits, results)

extract_phone_numbers(text) ==
    PhoneLoop(Concat([n \in 1..Len(PhonePatterns) |-> FindIter(NoGroup(PhonePatterns[n], FALSE), text)]),
              {}, <<>>)

BankPatterns == <<
    Pattern(Cat(<<Alt(<<Lit("account"), Lit("a/c"), Lit("acct"), Lit("acc")>>), Star(LabelSep),
                  Opt(Alt(<<Lit("no"), Lit("number"), Lit("num"), Lit("#")>>)), Star(LabelSep)>>),
            Rep(D, 10, 18), Empty, TRUE),
    Pattern(NotBehind(D), Rep(D, 13, 18), NotAhead(D), TRUE),
    Pattern(NotBehind(D), Rep(D, 12, 12), NotAhead(D), TRUE) >>

banking_words == <<"account", "a/c", "bank", "deposit", "transfer", "balance", "acct",
                   "blocked", "unauthorized">>

RECURSIVE BankLoop(_, _, _, _, _)
\* for match in matches: digits, the length (when checked), seen and phone_digits test;
\* gives <<seen, results>>
BankLoop(matches, checkLen, phone_digits, seen, results) ==
    IF matches = <<>> THEN <<seen, results>>
    ELSE LET digits == DigitsOf(Head(matches))
         IN  IF /\ checkLen => (10 <= Len(digits) /\ Len(digits) <= 18)
                /\ digits \notin seen
                /\ digits \notin phone_digits
             THEN BankLoop(Tail(matches), checkLen, phone_digits, seen \cup {digits},
                           Append(results, digits))
             ELSE BankLoop(Tail(matches), checkLen, phone_digits, seen, results)

extract_bank_accounts(text) ==
    With(extract_phone_numbers(text), LAMBDA phones :
    With({DigitsOf(phones[n]) : n \in 1..Len(phones)}, LAMBDA phone_digits :
    With(BankLoop(Concat([n \in 1..Len(BankPatterns) |-> FindAll(BankPatterns[n], text)]),
                  TRUE, phone_digits, {}, <<>>), LAMBDA long :
    With(Lower(text), LAMBDA text_lower :
        IF \E n \in 1..Len(banking_words) : Contains(text_lower, banking_words[n])
        THEN BankLoop(FindAll(Pattern(NotBehind(D), Rep(D, 10, 11), NotAhead(D), FALSE), text),
                      FALSE, phone_digits, long[1], long[2])[2]
        ELSE long[2]))))

upi_banks == <<"upi", "ybl", "paytm", "oksbi", "okicici", "okaxis", "okhdfcbank", "okbizaxis",
               "apl", "ibl", "sbi", "icici", "hdfc", "axis", "kotak", "bob", "pnb", "canara",
               "union", "boi", "uco", "idbi", "indian", "central", "baroda", "dbs", "rbl",
               "indus", "yes", "citi", "sc", "freecharge", "mobikwik", "jio", "airtel",
               "phonepe", "gpay", "amazonpay", "axisbank", "hdfcbank", "sbibank", "icicibank",
               "kotakbank", "fakebank", "fakeupi", "testbank", "demobank", "scam", "fraud",
               "fake">>

UpiPattern ==
    Pattern(Empty,
            Cat(<<Set(WordChars), Star(Set(WordChars \cup {".", "-"})), Lit("@"),
                  Alt([n \in 1..Len(upi_banks) |-> Lit(upi_banks[n])]
                      \o <<Rep(Set(LowerSet), 2, 15)>>)>>),
            WordBoundary, TRUE)

\* everything after the first "@" of s, "" without one
AfterAt(s) ==
    IF Contains(s, "@")
    THEN LET i == CHOOSE x \in 1..Len(s) :
                      CharAt(s, x) = "@" /\ \A y \in 1..(x - 1) : CharAt(s, y) # "@"
         IN  SubSeq(s, i + 1, Len(s))
    ELSE ""

RECURSIVE UpiLoop(_, _, _)
UpiLoop(matches, seen, results) ==
    IF matches = <<>> THEN results
    ELSE LET cleaned == Strip(Head(matches))
         IN  IF Contains(AfterAt(cleaned), ".") THEN UpiLoop(Tail(matches), seen, results)
             ELSE IF Lower(cleaned) \notin seen
                  THEN UpiLoop(Tail(matches), seen \cup {Lower(cleaned)}, Append(results, cleaned))
                  ELSE UpiLoop(Tail(matches), seen, results)

extract_upi_ids(text) == UpiLoop(FindAll(UpiPattern, text), {}, <<>>)

\* [^\s,)\"\'<>\]]
UrlChar == NotSet(Whitespace \cup {",", ")", "\"", "'", "<", ">", "]"})

UrlPatterns == <<
    Cat(<<Lit("http"), Opt(Lit("s")), Lit("://"), Plus(UrlChar)>>),
    Cat(<<NotBehind(NotSet(Whitespace)), Lit("www."), Plus(UrlChar)>>) >>

RECURSIVE RStripChars(_, _)
\* str.rstrip(chars)
RStripChars(s, chars) ==
    IF s # "" /\ CharAt(s, Len(s)) \in chars
    THEN RStripChars(SubSeq(s, 1, Len(s) - 1), chars)
    ELSE s

RECURSIVE UrlLoop(_, _, _)
UrlLoop(matches, seen, results) ==
    IF matches = <<>> THEN results
    ELSE LET cleaned == RStripChars(Head(matches),
                                    {".", ",", ";", ":", "!", "?", ")", "'", "\"", ">"})
         IN  IF Len(cleaned) > 8 /\ Lower(cleaned) \notin seen
             THEN UrlLoop(Tail(matches), seen \cup {Lower(cleaned)}, Append(results, cleaned))
             ELSE UrlLoop(Tail(matches), seen, results)

extract_urls(text) ==
    UrlLoop(Concat([n \in 1..Len(UrlPatterns) |-> FindIter(NoGroup(UrlPatterns[n], TRUE), text)]),
            {}, <<>>)

AlphaNum == UpperSet \cup LowerSet \cup Digits

EmailPattern ==
    Pattern(WordBoundary,
            Cat(<<Set(AlphaNum), Plus(Set(AlphaNum \cup {".", "_", "%", "+", "-"})), Lit("@"),
                  Plus(Set(AlphaNum \cup {".", "-"})), Lit("."),
                  Rep(Set(UpperSet \cup LowerSet), 2, Unbounded)>>),
            WordBoundary, TRUE)

email_tlds == <<"com", "org", "net", "in", "co", "io", "gov", "edu", "info", "biz", "me", "xyz",
                "online", "site", "tech", "app", "dev", "cloud", "mail", "email", "store",
                "shop", "pro", "name", "mobi", "tel", "asia", "us", "uk", "ca", "au", "de",
                "fr", "jp", "ru", "br", "za", "ng", "ke">>

EndsWith(s, suffix) ==
    Len(s) >= Len(suffix) /\ SubSeq(s, Len(s) - Len(suffix) + 1, Len(s)) = suffix

\* re.search(r'\.(com|org|...)$', cleaned, re.IGNORECASE)
HasTld(cleaned) ==
    \E n \in 1..Len(email_tlds) : EndsWith(Lower(cleaned), "." \o email_tlds[n])

RECURSIVE EmailLoop(_, _, _)
EmailLoop(matches, seen, results) ==
    IF matches = <<>> THEN results
    ELSE LET cleaned == RStripChars(Strip(Head(matches)), {"."})
         IN  IF HasTld(cleaned) /\ Lower(cleaned) \notin seen
             THEN EmailLoop(Tail(matches), seen \cup {Lower(cleaned)}, Append(results, cleaned))
             ELSE EmailLoop(Tail(matches), seen, results)

extract_emails(text) == EmailLoop(FindAll(EmailPattern, text), {}, <<>>)

\* (?i)(?:word|...)[.\s#:_-]*([A-Z0-9-]{5,20})\b
LabelledId(words) ==
    Pattern(Cat(<<Alt([n \in 1..Len(words) |-> Lit(words[n])]), Star(LabelSep)>>),
            Rep(Set(UpperSet \cup Digits \cup {"-"}), 5, 20), WordBoundary, TRUE)

RECURSIVE IdLoop(_, _, _)
IdLoop(matches, seen, results) ==
    IF matches = <<>> THEN results
    ELSE LET cleaned == Strip(Head(matches))
         IN  IF Lower(cleaned) \notin seen
             THEN IdLoop(Tail(matches), seen \cup {Lower(cleaned)}, Append(results, cleaned))
             ELSE IdLoop(Tail(matches), seen, results)

extract_case_ids(text) ==
    IdLoop(FindAll(LabelledId(<<"case", "reference", "ref", "ticket">>), text), {}, <<>>)

extract_policy_numbers(text) == IdLoop(FindAll(LabelledId(<<"policy">>), text), {}, <<>>)

extract_order_numbers(text) == IdLoop(FindAll(LabelledId(<<"order">>), text), {}, <<>>)

\* the dict regex_intel of extract_all
regex_intel(text) ==
    [phoneNumbers |-> extract_phone_numbers(text),
     bankAccounts |-> extract_bank_accounts(text),
     upiIds |-> extract_upi_ids(text),
     phishingLinks |-> extract_urls(text),
     emailAddresses |-> extract_emails(text),
     caseIds |-> extract_case_ids(text),
     policyNumbers |-> extract_policy_numbers(text),
     orderNumbers |-> extract_order_numbers(text)]

(***************************************************************************)
(* The enrichment oracle (extract_with_llm) and extract_all.               *)
(*                                                                         *)
(* A Python value is a record py (its type), val (its text) and items (its *)
(* elements); a call's outcome is either a returned value or a raised      *)
(* exception.                                                              *)
(***************************************************************************)
PyNone == [py |-> "NoneType", val |-> "", items |-> <<>>]
PyStr(v) == [py |-> "str", val |-> v, items |-> <<>>]
PyInt(v) == [py |-> "int", val |-> v, items |-> <<>>]
PyList(vs) == [py |-> "list", val |-> "", items |-> vs]
\* a dict: its items are <<key, value>> pairs in insertion order
PyDict(kvs) == [py |-> "dict", val |-> "", items |-> kvs]

\* bool(v)
Truthy(v) ==
    CASE v.py = "NoneType" -> FALSE
      [] v.py = "str" -> v.val # ""
      [] v.py = "int" -> v.val # "0"
      [] OTHER -> v.items # <<>>

\* str(v) of a value decoded from JSON
ToStr(v) ==
    CASE v.py = "str" -> v.val
      [] v.py = "int" -> v.val
      [] v.py = "NoneType" -> "None"

Ret(v) == [kind |-> "return", exc |-> "", value |-> v]
Raise(e) == [kind |-> "raise", exc |-> e, value |-> PyNone]

\* the elements a for loop over v sees
Iterate(v) ==
    CASE v.py = "list" -> Ret(v.items)
      [] v.py = "str" -> Ret([n \in 1..Len(v.val) |-> PyStr(CharAt(v.val, n))])
      [] v.py = "dict" -> Ret([n \in 1..Len(v.items) |-> PyStr(v.items[n][1])])
      [] OTHER -> Raise("TypeError")

\* data.get(key, []) of a dict
DictGet(data, key) ==
    IF \E n \in 1..Len(data.items) : data.items[n][1] = key
    THEN data.items[CHOOSE n \in 1..Len(data.items) : data.items[n][1] = key][2]
    ELSE PyList(<<>>)

\* [str(x) for x in data.get(key, [])]
StrList(data, key) ==
    LET it == Iterate(DictGet(data, key))
    IN  IF it.kind = "raise" THEN it
        ELSE Ret([n \in 1..Len(it.value) |-> ToStr(it.value[n])])

\* An answer of the oracle to requests.post(..., timeout=8):
\*   how     "raise" (the connection fails), "timeout", or "http"
\*   status  the status code of an "http" answer
\*   body    "invalid" (completion.json() raises), "nochoices" (the decoded body
\*           has no choices[0].message.content) or "content"
\*   fence   how the content wraps its text: "none", "json" (```json ... ```)
\*           or "plain" (``` ... ```)
\*   valid   does json.loads accept the unwrapped text
\*   data    the value json.loads gives
Answer(how, status, body, fence, valid, data) ==
    [how |-> how, status |-> status, body |-> body, fence |-> fence, valid |-> valid,
     data |-> data]

Unreachable == Answer("raise", 0, "invalid", "none", FALSE, PyNone)
TimedOut == Answer("timeout", 0, "invalid", "none", FALSE, PyNone)
HttpStatus(code) == Answer("http", code, "invalid", "none", FALSE, PyNone)
BadBody(body) == Answer("http", 200, body, "none", FALSE, PyNone)
BadContent(fence) == Answer("http", 200, "content", fence, FALSE, PyNone)
Content(fence, data) == Answer("http", 200, "content", fence, TRUE, data)

\* the try block of extract_with_llm: it returns the dict, raises, or (the
\* status not being 200) falls through
LlmTry(answer) ==
    IF answer.how = "raise" THEN Raise("ConnectionError")
    ELSE IF answer.how = "timeout" THEN Raise("Timeout")
    ELSE IF answer.status # 200 THEN [kind |-> "fallthrough", exc |-> "", value |-> PyNone]
    ELSE IF answer.body = "invalid" THEN Raise("JSONDecodeError")
    ELSE IF answer.body = "nochoices" THEN Raise("KeyError")
    ELSE IF ~answer.valid THEN Raise("JSONDecodeError")
    ELSE IF answer.data.py # "dict" THEN Raise("AttributeError")
    ELSE With(IntelDict([key \in Keys |-> StrList(answer.data, key)]), LAMBDA lists :
             IF \E key \in Keys : lists[key].kind = "raise" THEN Raise("TypeError")
             ELSE Ret(IntelDict([key \in Keys |-> lists[key].value])))

\* extract_with_llm: except Exception logs, and whatever did not return the
\* dict ends at return _empty_intel()
extract_with_llm(answer) ==
    With(LlmTry(answer), LAMBDA tried :
        IF tried.kind = "return" THEN tried ELSE Ret(empty_intel))

(***************************************************************************)
(* detector.py: the keyword classifier.                                    *)
(***************************************************************************)
\* re.compile(rf"\b{re.escape(k)}\b", re.IGNORECASE), and the pattern text with
\* the \b and the backslashes removed
Keyword(kw) == [keyword |-> TRUE, kw |-> kw, re |-> Empty, clean |-> kw]

\* a pattern that is not of that shape
Regex(r, clean) == [keyword |-> FALSE, kw |-> "", re |-> r, clean |-> clean]

KeywordPatterns(kws) == [n \in 1..Len(kws) |-> Keyword(kws[n])]

\* the categories in the order of the dict SCAM_PATTERNS
ScamTypes == <<"bank_fraud", "upi_fraud", "phishing", "investment_scam", "lottery_scam",
               "generic_scam">>

\* per category its patterns and its weight in tenths
SCAM_PATTERNS ==
    [bank_fraud |->
        [patterns |-> KeywordPatterns(<<
            "account", "bank", "blocked", "compromised", "otp", "debit", "credit",
            "transaction", "unauthorized", "suspend", "freeze", "kyc", "verify",
            "sbi", "hdfc", "icici", "axis", "pnb", "rbi", "reserve bank",
            "atm", "pin", "cvv", "card number", "netbanking", "password",
            "deactivat", "closed", "locked", "security alert", "fraud department">>),
         weight |-> 10],
     upi_fraud |->
        [patterns |-> KeywordPatterns(<<
            "upi", "gpay", "phonepe", "paytm", "google pay", "bhim",
            "cashback", "refund", "payment", "transfer", "collect request",
            "upi id", "upi pin", "send money", "receive money", "qr code",
            "vpa", "wallet", "recharge">>),
         weight |-> 10],
     phishing |->
        [patterns |-> KeywordPatterns(<<
            "click", "link", "url", "offer", "deal", "discount", "coupon",
            "amazon", "flipkart", "prize", "claim", "congratulations", "selected",
            "gift", "voucher", "free", "limited time", "expire", "act now",
            "login", "update your", "verify your", "confirm your", "subscribe">>)
            \o << Regex(Cat(<<Lit("http"), Opt(Lit("s")), Lit("://")>>), "https?://"),
                  Regex(Cat(<<Lit(".com"), WordBoundary>>), ".com") >>,
         weight |-> 10],
     investment_scam |->
        [patterns |-> KeywordPatterns(<<
            "invest", "return", "profit", "guaranteed", "double", "triple",
            "stock", "trading", "crypto", "bitcoin", "mutual fund", "scheme",
            "high return", "risk free", "monthly income", "passive income",
            "forex", "binary option">>),
         weight |-> 9],
     lottery_scam |->
        [patterns |-> KeywordPatterns(<<
            "lottery", "won", "winner", "prize", "lucky", "draw", "jackpot",
            "million", "crore", "lakh", "claim your", "winner notification",
            "sweepstakes", "raffle">>),
         weight |-> 9],
     generic_scam |->
        [patterns |-> KeywordPatterns(<<
            "police", "customs", "delivery", "fbi", "interpol", "arrest",
            "warrant", "fine", "penalty", "package", "parcel", "held",
            "tax", "irs", "revenue", "department", "social security">>),
         weight |-> 5]]

URGENCY_PATTERNS ==
    KeywordPatterns(<<"urgent", "immediately", "right now", "asap", "hurry", "quickly",
                      "within hours", "last chance", "don't delay", "act fast",
                      "time sensitive", "expiring", "deadline", "final warning",
                      "last warning">>)

\* the positions of s at which \b matches
Boundaries(s) == {i \in 1..(Len(s) + 1) : IsWordAt(s, i - 1) # IsWordAt(s, i)}

\* pattern.search(full_text), the patterns being compiled with re.IGNORECASE;
\* bounds are the Boundaries of full_text
PatternFound(p, full_text, bounds) ==
    IF p.keyword
    THEN \E i \in bounds : LitMatches(p.kw, full_text, i, TRUE) /\ (i + Len(p.kw)) \in bounds
    ELSE \E i \in 1..(Len(full_text) + 1) : Ends(p.re, full_text, i, TRUE) # <<>>

\* the positions, in order, of the patterns that are found
RECURSIVE Found(_, _, _, _)
Found(patterns, n, full_text, bounds) ==
    IF n > Len(patterns) THEN <<>>
    ELSE (IF PatternFound(patterns[n], full_text, bounds) THEN <<n>> ELSE <<>>)
         \o Found(patterns, n + 1, full_text, bounds)

\* score += weight without the weight
FloatSumUnweighted(weight, k) ==
    [tenths |-> 10 * k, above |-> FALSE]

\* score += weight, k times from 0.0, in binary floating point: the sum in
\* tenths, and whether the float exceeds that decimal value (adding 0.9
\* repeatedly gives 0.9, 1.8, 2.7, 3.6, 4.5, 5.4, ... each but 4.5 a float
\* above the decimal, 9.000000000000002 for k = 10; sums of 1.0 and of 0.5
\* are exact)
FloatSum(weight, k) ==
    [tenths |-> weight * k, above |-> weight = 9 /\ k > 0 /\ k # 5]

\* a > b on two such sums
FloatGreater(a, b) ==
    a.tenths > b.tenths \/ (a.tenths = b.tenths /\ a.above /\ ~b.above)

\* max(scores, key=scores.get): the first category, in dict order, that no
\* later or earlier category exceeds
MaxKey(scores) ==
    ScamTypes[CHOOSE n \in 1..Len(ScamTypes) :
                /\ \A m \in 1..Len(ScamTypes) : ~FloatGreater(scores[ScamTypes[m]], scores[ScamTypes[n]])
                /\ \A m \in 1..(n - 1) : FloatGreater(scores[ScamTypes[n]], scores[ScamTypes[m]])]

\* the half-way thousandths that round(confidence, 2) rounds up; it rounds the
\* other half-way values the confidence can take (0.625, 0.695, 0.725, 0.735,
\* 0.745, 0.795, 0.825, 0.835, 0.845, 0.975, 0.985) down, as the float nearest
\* to each lies below it
RoundsUp == {645, 675, 775, 785, 875, 885, 895, 915, 925, 935, 945, 965}

\* confidence without the cap of 0.99
ConfidenceUncapped(total_tenths) ==
    (600 + 5 * total_tenths) \div 10

\* round(min(0.99, 0.6 + total_evidence * 0.05), 2) in hundredths, the total
\* evidence given in tenths
Confidence(total_tenths) ==
    LET thousandths == 600 + 5 * total_tenths
    IN  IF thousandths >= 990 THEN 99
        ELSE IF thousandths % 10 = 5
             THEN (IF thousandths \in RoundsUp THEN (thousandths + 5) \div 10
                   ELSE (thousandths - 5) \div 10)
             ELSE thousandths \div 10

\* f"{scam_type}: '{clean_str}'" for the patterns found
Indicators(label, patterns, found) ==
    [n \in 1..Len(found) |-> label \o ": '" \o patterns[found[n]].clean \o "'"]

\* all_indicators[:10]
FirstTen(l) == IF Len(l) > 10 THEN SubSeq(l, 1, 10) ELSE l

Min(a, b) == IF a < b THEN a ELSE b

\* the patterns that pattern.search finds in full_text, per category and for the
\* urgency, as positions in their lists
Matched(full_text) ==
    With(Boundaries(full_text), LAMBDA bounds :
        [bank_fraud |-> Found(SCAM_PATTERNS.bank_fraud.patterns, 1, full_text, bounds),
         upi_fraud |-> Found(SCAM_PATTERNS.upi_fraud.patterns, 1, full_text, bounds),
         phishing |-> Found(SCAM_PATTERNS.phishing.patterns, 1, full_text, bounds),
         investment_scam |-> Found(SCAM_PATTERNS.investment_scam.patterns, 1, full_text, bounds),
         lottery_scam |-> Found(SCAM_PATTERNS.lottery_scam.patterns, 1, full_text, bounds),
         generic_scam |-> Found(SCAM_PATTERNS.generic_scam.patterns, 1, full_text, bounds),
         urgency |-> Found(URGENCY_PATTERNS, 1, full_text, bounds)])

\* detect_scam from the line scores = {} on, found being the patterns matched
Scored(found) ==
    LET scores == [t \in DOMAIN SCAM_PATTERNS |-> FloatSum(SCAM_PATTERNS[t].weight, Len(found[t]))]
        urgency_score == Len(found.urgency)
        all_indicators ==
            Concat([n \in 1..Len(ScamTypes) |->
                        Indicators(ScamTypes[n], SCAM_PATTERNS[ScamTypes[n]].patterns,
                                   found[ScamTypes[n]])])
            \o Indicators("urgency", URGENCY_PATTERNS, found.urgency)
        type_choice == MaxKey(scores)
        best == IF scores[type_choice].tenths > 0 THEN type_choice ELSE "generic_scam"
        best_score == IF scores[type_choice].tenths > 0 THEN scores[type_choice].tenths ELSE 0
    IN  [is_scam |-> TRUE,
         scam_type |-> best,
         confidence |-> Confidence(best_score + 10 * urgency_score),
         indicators |-> FirstTen(all_indicators),
         urgency_level |-> Min(urgency_score, 5)]

\* detect_scam from the line scores = {} on
Classify(full_text) == Scored(Matched(full_text))

\* full_text += " " + the text of every entry, whoever sent it
RECURSIVE AllSendersText(_, _)
AllSendersText(full_text, conversation_history) ==
    IF conversation_history = <<>> THEN full_text
    ELSE AllSendersText(full_text \o " " \o Head(conversation_history).text,
                        Tail(conversation_history))

RECURSIVE ScammerText(_, _)
\* full_text += " " + str(msg.get("text", "")) for the entries sent by the scammer
ScammerText(full_text, conversation_history) ==
    IF conversation_history = <<>> THEN full_text
    ELSE ScammerText(IF Head(conversation_history).sender = "scammer"
                     THEN full_text \o " " \o Head(conversation_history).text
                     ELSE full_text,
                     Tail(conversation_history))

(***************************************************************************)
(* Helpers.                                                                *)
(***************************************************************************)
RECURSIVE Join(_, _)
\* sep.join(parts)
Join(parts, sep) ==
    IF parts = <<>> THEN ""
    ELSE IF Len(parts) = 1 THEN parts[1]
    ELSE parts[1] \o sep \o Join(Tail(parts), sep)

RECURSIVE ListsUpTo(_, _)
ListsUpTo(S, n) ==
    IF n = 0 THEN {<<>>}
    ELSE LET shorter == ListsUpTo(S, n - 1)
         IN  shorter \cup {Append(l, e) : l \in {x \in shorter : Len(x) = n - 1}, e \in S}

Range(l) == {l[i] : i \in 1..Len(l)}

\* all_texts: the message and the text of every history entry
all_texts_of(msg_text, conversationHistory) ==
    <<msg_text>> \o [n \in 1..Len(conversationHistory) |-> conversationHistory[n].text]

\* the calls of extract_all of a turn, in order: on the combined text, then on
\* each text
ExtractCalls(all_texts) == <<Join(all_texts, " ")>> \o all_texts

(***************************************************************************)
(* The texts the checks draw from, and the extractors and the classifier   *)
(* tabulated on them.                                                      *)
(***************************************************************************)
MaxHistory == 1
MaxRequests == 2

SessionIds == {"s1", "s2"}

\* message texts: without evidence, with a phone number, with a payment handle
\* (both longer than MinLlmLen)
MsgTexts == {"ok", "call +919876543210 urgent", "pay me at scam@fakebank now"}

\* history entries: the scammer respelling the payment handle, and a reply of
\* the honeypot's side that carries a link with an unencodable character
HistoryEntries == {[sender |-> "scammer", text |-> "send to SCAM@FAKEBANK"],
                   [sender |-> "user", text |-> "see http://x.io/~a"]}

Histories == ListsUpTo(HistoryEntries, MaxHistory)

\* messages and history entries whose digits meet when a turn extracts from
\* them one by one and joined: a phone number with its country code beside an
\* account number of the same digits, and a phone number sent in two halves
CrossTexts == {"call +919876543210 urgent", "my number is 98765"}

CrossEntries == {[sender |-> "scammer", text |-> "a/c 919876543210"],
                 [sender |-> "scammer", text |-> "43210 call me"]}

CrossHistories == ListsUpTo(CrossEntries, MaxHistory)

\* arguments of extract_all as a pure function
ExtractArgs ==
    {PyNone, PyStr(""), PyInt("0"), PyInt("5"), PyList(<<PyStr("ok")>>)}
    \cup {PyStr(t) : t \in MsgTexts \cup {"a/c 123456789012 or mail a@b.com",
                                         "account number 9876543210",
                                         "pay to scam@fakebank",
                                         "contact fraud@fake-bank.com"}}

\* every text a check hands to the extractors
ExtractedTexts ==
    {a.val : a \in {b \in ExtractArgs : b.py = "str"}}
    \cup UNION {{c : c \in Range(ExtractCalls(all_texts_of(m, h)))} : m \in MsgTexts, h \in Histories}
    \cup UNION {{c : c \in Range(ExtractCalls(all_texts_of(m, h)))} :
                   m \in CrossTexts, h \in CrossHistories}

RegexTable == [t \in ExtractedTexts |-> regex_intel(t)]

\* message texts for the classifier: without a keyword; with one keyword of
\* weight 0.9; with one keyword of each of two categories of weight 1.0; with
\* two keywords of weight 0.5; with three keywords of one category, without
\* and with an urgency term; with three keywords of a category of weight 0.9
\* and one of another; with ten keywords of weight 0.9 and nine of weight 1.0
DetectTexts ==
    {"ok", "invest", "bank upi", "upi link", "police fine",
     "your bank account is blocked", "your bank account is blocked urgent",
     "you won the lottery prize",
     "invest return profit guaranteed double triple stock trading crypto bitcoin "
        \o "account bank blocked compromised otp debit credit transaction unauthorized"}

\* history entries for the classifier: the scammer pressing, and a reply of the
\* honeypot's side that repeats keywords
DetectEntries == {[sender |-> "scammer", text |-> "send otp immediately"],
                  [sender |-> "user", text |-> "why is my bank account blocked"]}

DetectHistories == ListsUpTo(DetectEntries, MaxHistory)

\* every text a check hands to the classifier
ClassifiedTexts ==
    {ScammerText(m, h) : m \in MsgTexts, h \in Histories}
    \cup {ScammerText(m, h) : m \in DetectTexts, h \in DetectHistories}
    \cup {ScammerText(m, h) : m \in CrossTexts, h \in CrossHistories}

MatchTable == [t \in ClassifiedTexts |-> Matched(t)]

ClassifyTable == [t \in ClassifiedTexts |-> Scored(MatchTable[t])]

\* the text must be longer than this for the oracle to be asked
MinLlmLen == 20

\* the extractors applied to a value: re raises TypeError on one that is no str
regex_of(text) ==
    IF text.py # "str" THEN Raise("TypeError")
    ELSE IF text.val \in DOMAIN RegexTable THEN Ret(RegexTable[text.val])
    ELSE Ret(regex_intel(text.val))

\* extract_all asking the oracle for a text of the minimum length already
AsksOracleFromMin(text, api_key) ==
    text.py = "str" /\ api_key /\ Len(text.val) >= MinLlmLen

\* does extract_all(text) ask the oracle (api_key: DEEPSEEK_API_KEY is set)
AsksOracle(text, api_key) == text.py = "str" /\ api_key /\ Len(text.val) > MinLlmLen

\* extract_all from "# 1. Regex Extraction" on
ExtractBody(text, api_key, answer) ==
    With(regex_of(text), LAMBDA regex :
        IF regex.kind = "raise" THEN regex
        ELSE IF AsksOracle(text, api_key)
             THEN With(extract_with_llm(answer), LAMBDA llm_intel :
                      IF llm_intel.kind = "raise" THEN regex
                      ELSE Ret(merge_intelligence(regex.value, llm_intel.value)))
             ELSE regex)

\* extract_all without its first two lines
extract_all_unguarded(text, api_key, answer) == ExtractBody(text, api_key, answer)

\* extract_all(text), given whether the key is set and what the oracle answers
\* should it be asked
extract_all(text, api_key, answer) ==
    IF ~Truthy(text) \/ text.py # "str" THEN Ret(empty_intel)
    ELSE ExtractBody(text, api_key, answer)

\* detect_scam(text, conversation_history): not text gives "", then the scammer's
\* entries are appended and the text is classified
detect_scam(text, conversation_history) ==
    LET full_text == ScammerText(text, conversation_history)
    IN  IF full_text \in DOMAIN ClassifyTable THEN ClassifyTable[full_text]
        ELSE Classify(full_text)

(***************************************************************************)
(* session.py.  Times are in tenths of a second; a confidence is in        *)
(* hundredths.                                                             *)
(***************************************************************************)
DigitChars == "0123456789"

RECURSIVE IntStr(_)
\* str(n) of a natural number
IntStr(n) ==
    IF n < 10 THEN CharAt(DigitChars, n + 1)
    ELSE IntStr(n \div 10) \o CharAt(DigitChars, (n % 10) + 1)

\* str(c) of a confidence: 0.0, 0.6, 0.65, ...
ConfStr(hundredths) ==
    "0." \o (IF hundredths % 10 = 0 THEN IntStr(hundredths \div 10)
             ELSE IntStr(hundredths \div 10) \o IntStr(hundredths % 10))

\* f"{d:.0f}": to the nearest whole second, a half to the even one
WholeStr(tenths) ==
    LET whole == tenths \div 10
        part == tenths % 10
    IN  IntStr(IF part > 5 \/ (part = 5 /\ whole % 2 = 1) THEN whole + 1 ELSE whole)

\* Session.__init__ at time now
Session(session_id, now) ==
    [session_id |-> session_id,
     start_time |-> now,
     last_message_time |-> now,
     message_count |-> 0,
     scam_type |-> "generic_scam",
     scam_confidence |-> 0,
     scam_indicators |-> <<>>,
     extracted_intelligence |-> empty_intel,
     agent_notes |-> <<>>]

add_message(sess, now) ==
    [sess EXCEPT !.message_count = @ + 1, !.last_message_time = now]

Max(a, b) == IF a > b THEN a ELSE b

\* max(1.0, actual_duration, estimated_duration)
get_engagement_duration(sess) ==
    Max(10, Max(sess.last_message_time - sess.start_time, sess.message_count * 120))

\* round(duration, 1) leaves a duration in whole tenths as it is
get_engagement_metrics(sess) ==
    [totalMessagesExchanged |-> sess.message_count * 2,
     engagementDurationSeconds |-> get_engagement_duration(sess)]

\* the part of get_agent_notes for one category, when it has entries
NotesPart(label, entries) ==
    IF entries # <<>> THEN <<label \o " Extracted: " \o Join(entries, ", ")>> ELSE <<>>

get_agent_notes(sess) ==
    LET intel == sess.extracted_intelligence
        notes_parts ==
            << "Scam Type Detected: " \o sess.scam_type \o " (confidence: "
                   \o ConfStr(sess.scam_confidence) \o ")",
               "Total Exchanges: " \o IntStr(sess.message_count),
               "Duration: " \o WholeStr(get_engagement_duration(sess)) \o "s" >>
            \o NotesPart("Phone Numbers", intel.phoneNumbers)
            \o NotesPart("Bank Accounts", intel.bankAccounts)
            \o NotesPart("UPI IDs", intel.upiIds)
            \o NotesPart("Phishing Links", intel.phishingLinks)
            \o NotesPart("Email Addresses", intel.emailAddresses)
            \o (IF sess.scam_indicators # <<>>
                THEN <<"Indicators: "
                           \o Join(SubSeq(sess.scam_indicators, 1, Min(5, Len(sess.scam_indicators))),
                                   ", ")>>
                ELSE <<>>)
            \o sess.agent_notes
    IN  Join(notes_parts, ". ")

\* get_or_create_session always creating
create_session(store, session_id, now) ==
    [s \in DOMAIN store \cup {session_id} |->
        IF s = session_id THEN Session(session_id, now) ELSE store[s]]

\* the store _sessions after get_or_create_session(session_id) at time now
get_or_create_session(store, session_id, now) ==
    IF session_id \notin DOMAIN store
    THEN [s \in DOMAIN store \cup {session_id} |->
             IF s = session_id THEN Session(session_id, now) ELSE store[s]]
    ELSE store

(***************************************************************************)
(* responder.py: the reply, as far as the handler's state decides it.      *)
(***************************************************************************)
\* the extra question of _template_response
AskOf(extracted, turn_no) ==
    IF extracted.phoneNumbers = <<>> /\ turn_no >= 2 THEN "ask_phone"
    ELSE IF extracted.upiIds = <<>> /\ turn_no >= 3 THEN "ask_upi"
    ELSE IF extracted.bankAccounts = <<>> /\ turn_no >= 4 THEN "ask_account"
    ELSE IF extracted.phishingLinks = <<>> /\ turn_no >= 5 THEN "ask_link"
    ELSE IF extracted.emailAddresses = <<>> /\ turn_no >= 6 THEN "ask_email"
    ELSE ""

\* generate_response: the reply of the dialogue model when the key is set and
\* the call gives one (llm_replies), a template otherwise: one of
\* GENERIC_RESPONSES[min(turn, 10)] followed by the question, taken from the
\* prompts of the category (those of bank_fraud for a category without prompts)
generate_response(turn_no, scam_type, extracted, api_key, llm_replies) ==
    IF api_key /\ llm_replies
    THEN [source |-> "llm", base |-> 0, prompts |-> "", ask |-> ""]
    ELSE [source |-> "template",
          base |-> Min(turn_no, 10),
          prompts |-> IF scam_type \in {"bank_fraud", "upi_fraud", "phishing"}
                      THEN scam_type ELSE "bank_fraud",
          ask |-> AskOf(extracted, turn_no)]

(***************************************************************************)
(* main.py: honeypot_endpoint and global_exception_handler.                *)
(***************************************************************************)
RECURSIVE FoldIntel(_, _, _)
\* current_intel after the loop over all_texts, outcomes[1] being that of the
\* combined text
FoldIntel(current_intel, outcomes, n) ==
    IF n > Len(outcomes) THEN current_intel
    ELSE FoldIntel(merge_intelligence(current_intel, outcomes[n].value), outcomes, n + 1)

\* the handler storing the turn's evidence by assignment, without merging
ReplaceIntel(sess, current_intel) ==
    [sess EXCEPT !.extracted_intelligence = current_intel]

\* sess.extracted_intelligence = merge_intelligence(sess.extracted_intelligence, current_intel)
MergeIntoSession(sess, current_intel) ==
    [sess EXCEPT !.extracted_intelligence = merge_intelligence(@, current_intel)]

\* the handler accumulating: the classification is stored only when its
\* confidence is not lower than the stored one
StoreClassificationHighest(sess, scam_result) ==
    IF scam_result.confidence >= sess.scam_confidence
    THEN [sess EXCEPT !.scam_type = scam_result.scam_type,
                      !.scam_confidence = scam_result.confidence,
                      !.scam_indicators = scam_result.indicators]
    ELSE sess

\* the handler storing the category and the indicators but not the confidence
StoreClassificationTypeOnly(sess, scam_result) ==
    [sess EXCEPT !.scam_type = scam_result.scam_type,
                 !.scam_indicators = scam_result.indicators]

\* sess.scam_type, sess.scam_confidence, sess.scam_indicators = the classifier's result
StoreClassification(sess, scam_result) ==
    [sess EXCEPT !.scam_type = scam_result.scam_type,
                 !.scam_confidence = scam_result.confidence,
                 !.scam_indicators = scam_result.indicators]

\* the dict the handler returns; elapsed is the time the turn took
TurnBody(sess, reply, elapsed) ==
    [status |-> "success",
     reply |-> reply,
     sessionId |-> sess.session_id,
     scamDetected |-> TRUE,
     scamType |-> sess.scam_type,
     scamConfidence |-> sess.scam_confidence,
     confidenceLevel |-> sess.scam_confidence,
     threatLevel |-> IF sess.scam_confidence > 70 THEN "high" ELSE "medium",
     riskScore |-> Min(sess.scam_confidence, 100),
     totalMessagesExchanged |-> sess.message_count * 2,
     engagementDurationSeconds |-> get_engagement_duration(sess) \div 10,
     extractedIntelligence |-> IntelDict(sess.extracted_intelligence),
     engagementMetrics |->
        [totalMessagesExchanged |-> get_engagement_metrics(sess).totalMessagesExchanged,
         engagementDurationSeconds |-> get_engagement_metrics(sess).engagementDurationSeconds,
         averageResponseTime |-> elapsed,
         turnsCompleted |-> sess.message_count],
     agentNotes |-> get_agent_notes(sess)]

\* the content global_exception_handler answers with
FailOpenBody(session_id) ==
    [status |-> "success",
     reply |-> [source |-> "fixed", base |-> 0, prompts |-> "", ask |-> ""],
     sessionId |-> session_id,
     scamDetected |-> TRUE,
     scamType |-> "generic_scam",
     confidenceLevel |-> 50,
     totalMessagesExchanged |-> 2,
     engagementDurationSeconds |-> 10,
     extractedIntelligence |-> empty_intel,
     agentNotes |-> "System crash recovered dynamically"]

\* The model writes "~" for a character that a history entry can carry and
\* that the UTF-8 encoding of a response refuses (a lone surrogate such as
\* U+D800): like it, "~" is no word character, digit or whitespace.
Unencodable == {"~"}

Encodes(str) == \A n \in 1..Len(str) : CharAt(str, n) \notin Unencodable

\* can the response be rendered: are its strings encodable
Renders(body) ==
    /\ \A k \in Keys :
          \A n \in 1..Len(body.extractedIntelligence[k]) : Encodes(body.extractedIntelligence[k][n])
    /\ Encodes(body.agentNotes)

\* requests.post(..., timeout=8): a call that times out has waited this long
LlmTimeout == 80

\* the time a turn waits for the oracle
RECURSIVE Waited(_, _, _, _)
Waited(calls, api_key, answers, n) ==
    IF n > Len(calls) THEN 0
    ELSE (IF AsksOracle(PyStr(calls[n]), api_key) /\ answers[n].how = "timeout"
          THEN LlmTimeout ELSE 0)
         + Waited(calls, api_key, answers, n + 1)

\* the texts, in order, for which the calls of extract_all of a turn attempt the
\* oracle
OracleCalls(calls, api_key) == SelectSeq(calls, LAMBDA text : AsksOracle(PyStr(text), api_key))

\* the outcomes of extract_all(combined_text) and of extract_all(text) for each
\* text of all_texts, from the n-th call on
RECURSIVE Outcomes(_, _, _, _)
Outcomes(calls, api_key, answers, n) ==
    IF n > Len(calls) THEN <<>>
    ELSE <<extract_all(PyStr(calls[n]), api_key, answers[n])>>
         \o Outcomes(calls, api_key, answers, n + 1)

\* a handler that stamps the time of the message on every session of the store
BeginTurnStampAll(store, now, session_id) ==
    With(get_or_create_session(store, session_id, now), LAMBDA created :
        [s \in DOMAIN created |->
            IF s = session_id THEN add_message(created[s], now)
            ELSE [created[s] EXCEPT !.last_message_time = now]])

\* honeypot_endpoint from start_time = time.time() to sess.add_message(): the
\* store _sessions it leaves
BeginTurn(store, now, session_id) ==
    With(get_or_create_session(store, session_id, now), LAMBDA created :
        [created EXCEPT ![session_id] = add_message(created[session_id], now)])

\* honeypot_endpoint from msg_text = ... on, the store holding the counted
\* session: the store it leaves, what it returns or raises, and its
\* current_intel and the texts it attempted the oracle for.  answers[n] is
\* the oracle's answer to the n-th call of extract_all, should it ask;
\* llm_replies tells whether the dialogue model gives a reply.
EndTurn(created, session_id, msg_text, conversationHistory, api_key, answers, llm_replies) ==
    With(created[session_id], LAMBDA counted :
    With(ExtractCalls(all_texts_of(msg_text, conversationHistory)), LAMBDA calls :
    With(Outcomes(calls, api_key, answers, 1), LAMBDA outcomes :
    With(Waited(calls, api_key, answers, 1), LAMBDA elapsed :
        IF \E n \in 1..Len(calls) : outcomes[n].kind = "raise"
        THEN [store |-> created,
              result |-> Raise("TypeError"),
              current_intel |-> empty_intel,
              oracle_calls |-> OracleCalls(calls, api_key),
              elapsed |-> elapsed]
        ELSE
    With(FoldIntel(outcomes[1].value, outcomes, 2), LAMBDA current_intel :
    With(StoreClassification(MergeIntoSession(counted, current_intel),
                             detect_scam(msg_text, conversationHistory)), LAMBDA sess :
    With(generate_response(sess.message_count, sess.scam_type, sess.extracted_intelligence,
                           api_key, llm_replies), LAMBDA reply :
    With(TurnBody(sess, reply, elapsed), LAMBDA body :
             [store |-> [created EXCEPT ![session_id] = sess],
              result |-> IF Renders(body) THEN Ret(body) ELSE Raise("UnicodeEncodeError"),
              current_intel |-> current_intel,
              oracle_calls |-> OracleCalls(calls, api_key),
              elapsed |-> elapsed]))))))))

\* honeypot_endpoint after verify_api_key, at time now on the store _sessions
honeypot_endpoint(store, now, session_id, msg_text, conversationHistory, api_key, answers, llm_replies) ==
    EndTurn(BeginTurn(store, now, session_id), session_id, msg_text, conversationHistory,
            api_key, answers, llm_replies)

(***************************************************************************)
(* State.                                                                  *)
(***************************************************************************)
VARIABLES
    mA, mB, mC,    \* arguments of the merge under check
    mOp,           \* which composition of merges was applied ("none" before)
    mOut1, mOut2,  \* its results
    xArg,          \* the argument of the extract_all under check
    xKey,          \* whether DEEPSEEK_API_KEY is set for it
    xAnswer,       \* the oracle's answer, should it be asked
    xOp,           \* "extract" once extract_all was applied ("none" before)
    xOut,          \* its outcome
    sessions,      \* the store _sessions: session id -> Session
    llmKey,        \* whether DEEPSEEK_API_KEY is set for the service
    clock,         \* time.time()
    served,        \* the number of requests answered
    request,       \* the last request
    response,      \* the answer to it
    returned,      \* per session id the evidence of its last normally answered turn
    inbox,         \* the requests accepted whose handler has not started
    task,          \* the handler the event loop is running
    handled,       \* the requests whose handler has finished, in that order
    dX, dY,        \* two inputs of detect_scam: a text and a history each
    dOp,           \* "detect" once detect_scam was applied to both ("none" before)
    dOutX, dOutY   \* its results

mergeVars == <<mA, mB, mC, mOp, mOut1, mOut2>>
extractVars == <<xArg, xKey, xAnswer, xOp, xOut>>
serviceVars == <<sessions, llmKey, clock, served, request, response, returned>>
loopVars == <<inbox, task, handled>>
detectVars == <<dX, dY, dOp, dOutX, dOutY>>
vars == <<mergeVars, extractVars, serviceVars, loopVars, detectVars>>

NoRequest ==
    [session_id |-> "", msg_text |-> "", conversationHistory |-> <<>>, authorized |-> FALSE,
     current_intel |-> empty_intel, oracle_calls |-> <<>>]
NoResponse == [status_code |-> 0, source |-> "", body |-> <<>>]

\* no handler on the event loop
NoTask ==
    [rid |-> 0, session_id |-> "", msg_text |-> "", conversationHistory |-> <<>>,
     unseen |-> FALSE, overlapped |-> FALSE, started |-> 0]

LoopIdle == inbox = {} /\ task = NoTask /\ handled = <<>>

NoInput == [text |-> "", conversation_history |-> <<>>]

DetectIdle ==
    /\ dX = NoInput /\ dY = NoInput /\ dOp = "none"
    /\ dOutX = Scored(MatchTable["ok"]) /\ dOutY = Scored(MatchTable["ok"])

MergeIdle ==
    /\ mA = empty_intel /\ mB = empty_intel /\ mC = empty_intel
    /\ mOp = "none" /\ mOut1 = empty_intel /\ mOut2 = empty_intel

ExtractIdle ==
    /\ xArg = PyNone /\ xKey = FALSE /\ xAnswer = Unreachable
    /\ xOp = "none" /\ xOut = Ret(empty_intel)

ServiceIdle ==
    /\ sessions = <<>> /\ llmKey = FALSE /\ clock = 0 /\ served = 0
    /\ request = NoRequest /\ response = NoResponse
    /\ returned = [s \in SessionIds |-> empty_intel]

(***************************************************************************)
(* merge_intelligence as a pure function: inputs drawn from bounded sets.  *)
(***************************************************************************)
\* entries as the extractors and the enrichment oracle can produce them:
\* differing in case only, carrying leading or trailing whitespace, distinct
MergeEntries == {"a", "A ", " a", "B"}

MergeLists == ListsUpTo(MergeEntries, MaxEntries)

\* a record with two populated categories
RecOf(l1, l2) ==
    IntelDict([key \in Keys |-> IF key = "phoneNumbers" THEN l1 ELSE IF key = "upiIds" THEN l2 ELSE <<>>])

MergeInit ==
    /\ \E l \in MergeLists :
         \E i \in 0..Len(l) :
             \E j \in i..Len(l) :
                 LET la == SubSeq(l, 1, i)
                     lb == SubSeq(l, i + 1, j)
                     lc == SubSeq(l, j + 1, Len(l))
                 IN  /\ mA = RecOf(la, lb)
                     /\ mB = RecOf(lb, lc)
                     /\ mC = RecOf(lc, la)
    /\ mOp = "none"
    /\ mOut1 = empty_intel
    /\ mOut2 = empty_intel
    /\ ExtractIdle
    /\ ServiceIdle
    /\ LoopIdle
    /\ DetectIdle

\* merge(A, B)
ApplyMerge ==
    /\ mOp = "none"
    /\ mOp' = "merge"
    /\ mOut1' = merge_intelligence(mA, mB)
    /\ mOut2' = mOut2
    /\ UNCHANGED <<mA, mB, mC, extractVars, serviceVars, loopVars, detectVars>>

\* merge(A, B) and merge(merge(A, B), B)
ApplyTwice ==
    /\ mOp = "none"
    /\ mOp' = "twice"
    /\ mOut1' = merge_intelligence(mA, mB)
    /\ mOut2' = merge_intelligence(merge_intelligence(mA, mB), mB)
    /\ UNCHANGED <<mA, mB, mC, extractVars, serviceVars, loopVars, detectVars>>

\* merge(merge(A, B), C) and merge(A, merge(B, C))
ApplyAssoc ==
    /\ mOp = "none"
    /\ mOp' = "assoc"
    /\ mOut1' = merge_intelligence(merge_intelligence(mA, mB), mC)
    /\ mOut2' = merge_intelligence(mA, merge_intelligence(mB, mC))
    /\ UNCHANGED <<mA, mB, mC, extractVars, serviceVars, loopVars, detectVars>>

MergeNext == ApplyMerge \/ ApplyTwice \/ ApplyAssoc

MergeSpec == MergeInit /\ [][MergeNext]_vars

(***************************************************************************)
(* extract_all as a pure function: arguments, key and oracle answers drawn *)
(* from bounded sets.                                                      *)
(***************************************************************************)
\* what the oracle names a payment handle the text spells in lower case, and one
\* the text does not hold
Handles == PyList(<<PyStr(" Scam@FakeBank "), PyStr("x@ybl")>>)

\* answers that carry a JSON object with lists of strings: empty, with payment
\* handles, with a number of the text named as a bank account
WellFormedAnswers ==
    {Content("none", PyDict(<<>>)),
     Content("none", PyDict(<< <<"bankAccounts", PyList(<<PyStr("9876543210")>>)>> >>)),
     Content("json", PyDict(<< <<"upiIds", Handles>> >>)),
     Content("plain", PyDict(<< <<"upiIds", Handles>>, <<"phoneNumbers", PyList(<<>>)>> >>))}

\* answers with a success status whose data is not of that shape: no JSON, no
\* object, a category that is null, a number, a string or an object, a list
\* with a number and a null in it
MalformedAnswers ==
    {BadBody("invalid"), BadBody("nochoices"), BadContent("none"), BadContent("json"),
     Content("none", PyList(<<>>)),
     Content("none", PyStr("none found")),
     Content("none", PyDict(<< <<"phoneNumbers", PyNone>> >>)),
     Content("none", PyDict(<< <<"upiIds", Handles>>, <<"phoneNumbers", PyInt("98765")>> >>)),
     Content("none", PyDict(<< <<"phoneNumbers", PyStr("98765")>> >>)),
     Content("json", PyDict(<< <<"phoneNumbers", PyDict(<< <<"primary", PyStr("98765")>> >>)>> >>)),
     Content("none", PyDict(<< <<"phoneNumbers", PyList(<<PyInt("9876543210"), PyNone>>)>> >>))}

\* the oracle raising, timing out or answering with another status
FailedAnswers == {Unreachable, TimedOut, HttpStatus(500), HttpStatus(429)}

Answers == WellFormedAnswers \cup MalformedAnswers \cup FailedAnswers

ExtractInit ==
    /\ xArg \in ExtractArgs
    /\ xKey \in BOOLEAN
    /\ xAnswer \in Answers
    /\ xOp = "none"
    /\ xOut = Ret(empty_intel)
    /\ MergeIdle
    /\ ServiceIdle
    /\ LoopIdle
    /\ DetectIdle

\* extract_all(xArg)
ApplyExtract ==
    /\ xOp = "none"
    /\ xOp' = "extract"
    /\ xOut' = extract_all(xArg, xKey, xAnswer)
    /\ UNCHANGED <<xArg, xKey, xAnswer, mergeVars, serviceVars, loopVars, detectVars>>

ExtractNext == ApplyExtract

ExtractSpec == ExtractInit /\ [][ExtractNext]_vars

(***************************************************************************)
(* The service: requests to POST /honeypot, one at a time (the handler is  *)
(* a coroutine that never awaits).                                         *)
(***************************************************************************)
\* the time between two requests
Delays == {0, 405}

\* The extraction oracle and the dialogue model are one remote API: during a
\* turn it is up, answering every call (with the payment handles, with a reply),
\* or down, answering every call with status 500.
ServiceAnswer(api_up) ==
    IF api_up THEN Content("json", PyDict(<< <<"upiIds", Handles>> >>)) ELSE HttpStatus(500)

Init ==
    /\ sessions = <<>>
    /\ llmKey \in BOOLEAN
    /\ clock = 0
    /\ served = 0
    /\ request = NoRequest
    /\ response = NoResponse
    /\ returned = [s \in SessionIds |-> empty_intel]
    /\ MergeIdle
    /\ ExtractIdle
    /\ LoopIdle
    /\ DetectIdle

\* a request whose x-api-key is not settings.API_KEY: verify_api_key raises
\* HTTPException(401) before the handler touches the store
Unauthorized ==
    /\ served < MaxRequests
    /\ \E session_id \in SessionIds, delay \in Delays :
         /\ clock' = clock + delay
         /\ request' = [NoRequest EXCEPT !.session_id = session_id]
    /\ served' = served + 1
    /\ response' = [status_code |-> 401, source |-> "verify_api_key",
                    body |-> [detail |-> "Invalid API Key"]]
    /\ UNCHANGED <<sessions, llmKey, returned, mergeVars, extractVars, loopVars, detectVars>>

\* a request with the right key: the whole of honeypot_endpoint, and of
\* global_exception_handler when the handler or the rendering of what it
\* returns raises; the message is one of texts, the history one of histories
TurnWith(texts, histories) ==
    /\ served < MaxRequests
    /\ \E session_id \in SessionIds, msg_text \in texts, conversationHistory \in histories,
          delay \in Delays, api_up \in BOOLEAN :
         /\ llmKey \/ ~api_up
         /\ With(honeypot_endpoint(
                     sessions, clock + delay, session_id, msg_text, conversationHistory, llmKey,
                     [n \in 1..(Len(conversationHistory) + 2) |-> ServiceAnswer(api_up)], api_up),
                 LAMBDA done :
                    /\ sessions' = done.store
                    /\ clock' = clock + delay + done.elapsed
                    /\ request' = [session_id |-> session_id, msg_text |-> msg_text,
                                   conversationHistory |-> conversationHistory,
                                   authorized |-> TRUE, current_intel |-> done.current_intel,
                                   oracle_calls |-> done.oracle_calls]
                    /\ IF done.result.kind = "return"
                       THEN /\ response' = [status_code |-> 200, source |-> "honeypot_endpoint",
                                            body |-> done.result.value]
                            /\ returned' = [returned EXCEPT
                                               ![session_id] =
                                                   done.result.value.extractedIntelligence]
                       ELSE \* the handler reads sessionId from the body again; whether
                            \* the body can still be read is up to the framework
                            /\ \E echoed \in {session_id, "unknown-session"} :
                                  response' = [status_code |-> 200,
                                               source |-> "global_exception_handler",
                                               body |-> FailOpenBody(echoed)]
                            /\ UNCHANGED returned)
    /\ served' = served + 1
    /\ UNCHANGED <<llmKey, mergeVars, extractVars, loopVars, detectVars>>

Turn == TurnWith(MsgTexts, Histories)

Next == Turn \/ Unauthorized

Spec == Init /\ [][Next]_vars

\* the service on the messages whose digits meet
CrossTurn == TurnWith(CrossTexts, CrossHistories)

CrossNext == CrossTurn \/ Unauthorized

CrossSpec == Init /\ [][CrossNext]_vars

(***************************************************************************)
(* The service under overlapping requests.  uvicorn runs the application   *)
(* on one event loop; honeypot_endpoint is a coroutine without an await,   *)
(* and its calls of requests.post block the thread of the loop, so the     *)
(* loop runs a handler from its first line to its return before it runs    *)
(* anything else.                                                          *)
(***************************************************************************)
\* the number of requests accepted so far
Accepted == Cardinality(inbox) + (IF task = NoTask THEN 0 ELSE 1) + Len(handled)

\* the handler of a request waits for the oracle in extract_with_llm
WaitsOnOracle(msg_text, conversationHistory, api_key) ==
    \E text \in Range(ExtractCalls(all_texts_of(msg_text, conversationHistory))) :
        AsksOracle(PyStr(text), api_key)

\* an event loop that starts a handler while it is running another, dropping that
CanStartAny(req) == req \in inbox

\* the event loop can start the handler of a request: it is running no other
CanStart(req) == req \in inbox /\ task = NoTask

LoopInit ==
    /\ sessions = <<>>
    /\ llmKey \in BOOLEAN
    /\ clock = 0
    /\ served = 0
    /\ request = NoRequest
    /\ response = NoResponse
    /\ returned = [s \in SessionIds |-> empty_intel]
    /\ LoopIdle
    /\ DetectIdle
    /\ MergeIdle
    /\ ExtractIdle

\* a request with the right key is accepted, while a handler runs or not; the
\* event loop schedules its handler
Arrive ==
    /\ Accepted < MaxRequests
    /\ \E session_id \in SessionIds, msg_text \in MsgTexts, conversationHistory \in Histories :
         inbox' = inbox \cup
                {[rid |-> Accepted + 1, session_id |-> session_id, msg_text |-> msg_text,
                  conversationHistory |-> conversationHistory,
                  unseen |-> session_id \notin DOMAIN sessions,
                  overlapped |-> task # NoTask /\ task.session_id = session_id,
                  started |-> 0]}
    /\ UNCHANGED <<sessions, llmKey, clock, served, request, response, returned, task, handled,
                   mergeVars, extractVars, detectVars>>

\* the event loop starts the handler of an accepted request, at once or some
\* time after the last thing that happened: honeypot_endpoint up to
\* sess.add_message()
Start ==
    /\ \E req \in inbox, delay \in Delays :
         /\ CanStart(req)
         /\ clock' = clock + delay
         /\ sessions' = BeginTurn(sessions, clock + delay, req.session_id)
         /\ task' = [req EXCEPT !.started = clock + delay,
                                !.overlapped = @ \/ \E other \in inbox \ {req} :
                                                      other.session_id = req.session_id]
         /\ inbox' = {[other EXCEPT !.overlapped = @ \/ other.session_id = req.session_id] :
                         other \in inbox \ {req}}
    /\ UNCHANGED <<llmKey, served, request, response, returned, handled,
                   mergeVars, extractVars, detectVars>>

\* the handler runs on to its return: the rest of honeypot_endpoint
Finish ==
    /\ task # NoTask
    /\ \E api_up \in BOOLEAN :
         /\ llmKey \/ ~api_up
         /\ With(EndTurn(sessions, task.session_id, task.msg_text, task.conversationHistory,
                         llmKey,
                         [n \in 1..(Len(task.conversationHistory) + 2) |-> ServiceAnswer(api_up)],
                         api_up),
                 LAMBDA ended :
                    /\ sessions' = ended.store
                    /\ clock' = clock + ended.elapsed
                    /\ handled' = Append(handled,
                                         [rid |-> task.rid, session_id |-> task.session_id,
                                          msg_text |-> task.msg_text,
                                          conversationHistory |-> task.conversationHistory,
                                          unseen |-> task.unseen,
                                          overlapped |-> task.overlapped,
                                          started |-> task.started,
                                          turn_no |-> sessions[task.session_id].message_count,
                                          current_intel |-> ended.current_intel]))
    /\ task' = NoTask
    /\ UNCHANGED <<llmKey, served, request, response, returned, inbox, mergeVars, extractVars,
                   detectVars>>

LoopNext == Arrive \/ Start \/ Finish

LoopSpec == LoopInit /\ [][LoopNext]_vars

(***************************************************************************)
(* detect_scam as a pure function: two inputs drawn from bounded sets, so  *)
(* that results can be compared.                                           *)
(***************************************************************************)
DetectInputs ==
    {[text |-> m, conversation_history |-> h] : m \in DetectTexts, h \in DetectHistories}

DetectInit ==
    /\ dX \in DetectInputs
    /\ dY \in DetectInputs
    /\ dOp = "none"
    /\ dOutX = Scored(MatchTable["ok"])
    /\ dOutY = Scored(MatchTable["ok"])
    /\ MergeIdle
    /\ ExtractIdle
    /\ ServiceIdle
    /\ LoopIdle

\* detect_scam(text, conversation_history) for both inputs
ApplyDetect ==
    /\ dOp = "none"
    /\ dOp' = "detect"
    /\ dOutX' = detect_scam(dX.text, dX.conversation_history)
    /\ dOutY' = detect_scam(dY.text, dY.conversation_history)
    /\ UNCHANGED <<dX, dY, mergeVars, extractVars, serviceVars, loopVars>>

DetectNext == ApplyDetect

DetectSpec == DetectInit /\ [][DetectNext]_vars

(***************************************************************************)
(* Properties of merge_intelligence (checked under MergeSpec).             *)
(***************************************************************************)
\* the entries of a list, normalized
NormSet(l) == {Norm(l[i]) : i \in 1..Len(l)}

\* C2: merge_intelligence is idempotent in its second argument:
\* merge(merge(A, B), B) = merge(A, B) in every category, same entries, same order.
C2_Idempotent == mOp = "twice" => \A k \in Keys : mOut2[k] = mOut1[k]

\* the second merge met entries of B that the first merge had already taken
C2_Witness ==
    /\ mOp = "twice"
    /\ \E k \in Keys : Len(mB[k]) >= 2 /\ Len(mA[k]) > 0 /\ Len(mOut1[k]) > Len(mA[k])

\* C3 as stated: every entry of A and every entry of B appears, as it is spelled,
\* in merge(A, B) in its category.
C3_NoLossExact ==
    mOp = "merge" => \A k \in Keys : Range(mA[k]) \cup Range(mB[k]) \subseteq Range(mOut1[k])

\* C3 amended: every entry of A and every entry of B is represented in merge(A, B)
\* in its category by an entry with the same normalized form (trim, lowercase).
C3_NoLossNormalized ==
    mOp = "merge" =>
        \A k \in Keys : NormSet(mA[k]) \cup NormSet(mB[k]) \subseteq NormSet(mOut1[k])

\* B contributes an entry A lacks, and another entry of B is a respelling of an
\* entry of A
C3_Witness ==
    /\ mOp = "merge"
    /\ \E k \in Keys :
         /\ NormSet(mB[k]) \ NormSet(mA[k]) # {}
         /\ NormSet(mA[k]) \cap NormSet(mB[k]) # {}
         /\ ~ (Range(mB[k]) \subseteq Range(mOut1[k]))

\* the indices of the first occurrences, by normalized form, in a list
FirstIdx(cat) ==
    {i \in 1..Len(cat) : \A j \in 1..(i - 1) : Norm(cat[j]) # Norm(cat[i])}

\* the n-th smallest element of a set of numbers
NthSmallest(S, n) == CHOOSE i \in S : Cardinality({j \in S : j < i}) = n - 1

\* C5 as stated: per category the merge is existing followed by incoming without
\* the entries whose normalized form was already seen, the kept entry being the
\* first occurrence with its casing and spacing unchanged, in order of first appearance.
C5_FirstOccurrenceUnchanged ==
    mOp = "merge" =>
        \A k \in Keys :
            LET cat == mA[k] \o mB[k]
                idx == FirstIdx(cat)
            IN  /\ Len(mOut1[k]) = Cardinality(idx)
                /\ \A n \in 1..Len(mOut1[k]) : mOut1[k][n] = cat[NthSmallest(idx, n)]

\* C5 amended: the same, the kept entry being the first occurrence trimmed of
\* leading and trailing whitespace, its casing unchanged.
C5_FirstOccurrenceTrimmed ==
    mOp = "merge" =>
        \A k \in Keys :
            LET cat == mA[k] \o mB[k]
                idx == FirstIdx(cat)
            IN  /\ Len(mOut1[k]) = Cardinality(idx)
                /\ \A n \in 1..Len(mOut1[k]) : mOut1[k][n] = Strip(cat[NthSmallest(idx, n)])

\* a merge that dropped a later duplicate and kept an upper-case first occurrence
\* that carried whitespace
C5_Witness ==
    /\ mOp = "merge"
    /\ \E k \in Keys :
         /\ Len(mOut1[k]) >= 2
         /\ Len(mOut1[k]) < Len(mA[k]) + Len(mB[k])
         /\ "A" \in Range(mOut1[k])
         /\ "A" \notin Range(mA[k] \o mB[k])

\* C6: merge_intelligence is associative: merge(merge(A, B), C) = merge(A, merge(B, C))
\* in every category, same entries, same order, same retained casing.
C6_Associative == mOp = "assoc" => \A k \in Keys : mOut1[k] = mOut2[k]

\* the three records overlap pairwise by normalized form and each result holds
\* entries of all three
C6_Witness ==
    /\ mOp = "assoc"
    /\ \E k \in Keys :
         /\ NormSet(mA[k]) \cap NormSet(mB[k]) # {}
         /\ NormSet(mB[k]) \cap NormSet(mC[k]) # {}
         /\ NormSet(mC[k]) \ (NormSet(mA[k]) \cup NormSet(mB[k])) # {}
         /\ Len(mOut1[k]) >= 2

(***************************************************************************)
(* Properties of the service (checked under Spec).                         *)
(***************************************************************************)
IsPrefix(l1, l2) == Len(l1) <= Len(l2) /\ SubSeq(l2, 1, Len(l1)) = l1

\* no two entries of a list are equal after trimming and lowercasing
NoDuplicates(l) == \A i, j \in 1..Len(l) : Norm(l[i]) = Norm(l[j]) => i = j

\* C1: across the normally answered turns of a session the evidence only grows:
\* in each of the eight categories the list a turn returns is a prefix of the
\* list the next normally answered turn of that session returns.
C1_EvidenceOnlyGrows ==
    [][\A s \in SessionIds : \A k \in Keys : IsPrefix(returned[s][k], returned'[s][k])]_vars

\* a turn whose message and history hold no evidence returned evidence of an
\* earlier turn of its session
C1_Witness ==
    /\ response.source = "honeypot_endpoint"
    /\ request.msg_text = "ok"
    /\ request.conversationHistory = <<>>
    /\ request.current_intel = empty_intel
    /\ sessions[request.session_id].message_count >= 2
    /\ \E k \in Keys : response.body.extractedIntelligence[k] # <<>>
    /\ response.body.extractedIntelligence = returned[request.session_id]

\* C4: in every reachable state no category of a session's cumulative evidence,
\* and no category of the evidence the handler's merges gave for the turn, holds
\* two entries that are equal after trimming whitespace and lowercasing.
C4_NoNormalizedDuplicates ==
    /\ \A s \in DOMAIN sessions :
          \A k \in Keys : NoDuplicates(sessions[s].extracted_intelligence[k])
    /\ \A k \in Keys : NoDuplicates(request.current_intel[k])

\* a turn whose message and history spell one payment handle in two casings
\* left it once in the session's evidence
C4_Witness ==
    /\ response.source = "honeypot_endpoint"
    /\ request.msg_text = "pay me at scam@fakebank now"
    /\ \E n \in 1..Len(request.conversationHistory) :
          request.conversationHistory[n].text = "send to SCAM@FAKEBANK"
    /\ sessions[request.session_id].extracted_intelligence.upiIds = <<"scam@fakebank">>

\* the fields of the dict a normally processed turn returns
NormalFields ==
    DOMAIN TurnBody(add_message(Session("s1", 0), 0),
                    generate_response(1, "generic_scam", empty_intel, FALSE, FALSE), 0)

\* C7 as stated: an exception raised while a turn is processed is answered with
\* status 200 and a result that carries the same set of fields as the result of
\* a normally processed turn.
C7_FailOpenSameFields ==
    response.source = "global_exception_handler" =>
        /\ response.status_code = 200
        /\ DOMAIN response.body = NormalFields

\* C10: a session id becomes active only by an authorized request naming it;
\* once active it stays in the store, its creation time never changes, its turn
\* counter never decreases and its evidence is never cut back.
C10_SessionsPersist ==
    [][/\ DOMAIN sessions \subseteq DOMAIN sessions'
       /\ \A s \in DOMAIN sessions :
             /\ sessions'[s].session_id = sessions[s].session_id
             /\ sessions'[s].start_time = sessions[s].start_time
             /\ sessions'[s].message_count >= sessions[s].message_count
             /\ \A k \in Keys : IsPrefix(sessions[s].extracted_intelligence[k],
                                         sessions'[s].extracted_intelligence[k])
       /\ \A s \in DOMAIN sessions' \ DOMAIN sessions :
             /\ request'.session_id = s
             /\ request'.authorized
             /\ sessions'[s].message_count = 1]_vars

\* a session was referred to again, later than it was created, while another
\* session is active beside it
C10_Witness ==
    \E s \in DOMAIN sessions :
        /\ sessions[s].message_count = 2
        /\ sessions[s].last_message_time > sessions[s].start_time
        /\ \E k \in Keys : sessions[s].extracted_intelligence[k] # <<>>

(***************************************************************************)
(* Properties of extract_all (checked under ExtractSpec).                  *)
(***************************************************************************)
\* a Python list: a sequence
IsList(v) == DOMAIN v = 1..Len(v)

\* C8: for every input, a None, an empty or a non-string one included, and
\* whatever the key and the oracle's answer, extract_all returns without raising
\* a record with exactly the eight category keys, each a list; for an empty or
\* invalid input the eight lists are empty.
C8_ExtractAllTotal ==
    xOp = "extract" =>
        /\ xOut.kind = "return"
        /\ DOMAIN xOut.value = Keys
        /\ \A k \in Keys : IsList(xOut.value[k])
        /\ (~Truthy(xArg) \/ xArg.py # "str") => xOut.value = empty_intel

\* extract_all was given a value that is no string
C8_Witness ==
    /\ xOp = "extract"
    /\ xArg.py = "list"
    /\ xKey
    /\ xOut = Ret(empty_intel)

\* the oracle was not asked or did not give well-formed data
OracleUnavailable ==
    \/ ~xKey
    \/ xAnswer \in FailedAnswers
    \/ xAnswer \in MalformedAnswers

\* C9 as stated: when the oracle is not configured, raises, times out, answers
\* with another status than success or returns malformed data, extract_all of a
\* text returns exactly the regex-only evidence of that text.
C9_RegexOnlyWhenUnavailable ==
    (xOp = "extract" /\ xArg.py = "str" /\ xArg.val # "" /\ OracleUnavailable)
        => xOut = regex_of(xArg)

(***************************************************************************)
(* Properties of the service under overlapping requests (checked under     *)
(* LoopSpec) and of the unit of a turn (checked under Spec).               *)
(***************************************************************************)
\* the handled requests of a session, in the order their handlers finished
HandledFor(s) == SelectSeq(handled, LAMBDA e : e.session_id = s)

\* every entry of intel is in stored, in its category, up to spelling
Represented(intel, stored) ==
    \A k \in Keys : NormSet(intel[k]) \subseteq NormSet(stored[k])

\* the category, confidence and indicators of sess are those detect_scam gives
\* for the message and the history
ClassifiedAs(sess, msg_text, conversationHistory) ==
    /\ sess.scam_type = detect_scam(msg_text, conversationHistory).scam_type
    /\ sess.scam_confidence = detect_scam(msg_text, conversationHistory).confidence
    /\ sess.scam_indicators = detect_scam(msg_text, conversationHistory).indicators

\* C11: when requests for one session id overlapped (one was accepted or waiting
\* while the handler of another ran) and all of them are handled, the session is
\* as after handling them one after the other: the turn counter advanced by one
\* for each, the n-th handled saw turn n, the cumulative record represents the
\* evidence of every one of them, and category, confidence and indicators are
\* those of one and the same turn, the last.
C11_OverlappingTurnsSerialize ==
    \A s \in SessionIds :
        (/\ task.session_id # s
         /\ \A req \in inbox : req.session_id # s
         /\ \E n \in 1..Len(HandledFor(s)) : HandledFor(s)[n].overlapped)
        => /\ sessions[s].message_count = Len(HandledFor(s))
           /\ \A n \in 1..Len(HandledFor(s)) :
                 /\ HandledFor(s)[n].turn_no = n
                 /\ Represented(HandledFor(s)[n].current_intel, sessions[s].extracted_intelligence)
           /\ ClassifiedAs(sessions[s], HandledFor(s)[Len(HandledFor(s))].msg_text,
                           HandledFor(s)[Len(HandledFor(s))].conversationHistory)

\* two requests for one session overlapped and are handled: they brought
\* different evidence and classify differently
C11_Witness ==
    /\ task = NoTask
    /\ inbox = {}
    /\ Len(handled) = 2
    /\ handled[1].session_id = handled[2].session_id
    /\ handled[1].overlapped /\ handled[2].overlapped
    /\ handled[1].current_intel.phoneNumbers # <<>>
    /\ handled[2].current_intel.upiIds # <<>>
    /\ sessions[handled[1].session_id].message_count = 2
    /\ detect_scam(handled[1].msg_text, handled[1].conversationHistory).confidence
          # detect_scam(handled[2].msg_text, handled[2].conversationHistory).confidence

\* the requests of a session whose handler has started
StartedFor(s) ==
    {[rid |-> handled[n].rid, unseen |-> handled[n].unseen, started |-> handled[n].started] :
        n \in {m \in 1..Len(handled) : handled[m].session_id = s}}
    \cup (IF task.session_id = s
          THEN {[rid |-> task.rid, unseen |-> task.unseen, started |-> task.started]}
          ELSE {})

\* C12: when several requests were accepted for a session id the store did not
\* hold yet, the store holds one record for the id, the one created by the
\* handler that started first, and every handler that started has counted its
\* turn on that record.
C12_OneRecordPerSessionId ==
    \A s \in SessionIds :
        Cardinality({e \in StartedFor(s) : e.unseen}) >= 2
        => /\ s \in DOMAIN sessions
           /\ sessions[s].session_id = s
           /\ \A e \in StartedFor(s) : sessions[s].start_time <= e.started
           /\ \E e \in StartedFor(s) : sessions[s].start_time = e.started
           /\ sessions[s].message_count = Cardinality(StartedFor(s))

\* two requests raced on an unseen session id, the second one accepted later
\* than the first one started, and both are handled
C12_Witness ==
    /\ Len(handled) = 2
    /\ handled[1].session_id = handled[2].session_id
    /\ handled[1].unseen /\ handled[2].unseen
    /\ handled[2].started > handled[1].started
    /\ sessions[handled[1].session_id].start_time = handled[1].started
    /\ sessions[handled[1].session_id].message_count = 2

\* C13: turns on independent session ids never block each other: while the
\* handler of a request for session A waits for the oracle, the handler of an
\* accepted request for another session B can start.
C13_IndependentSessionsDoNotBlock ==
    \A req \in inbox :
        (/\ task # NoTask
         /\ task.session_id # req.session_id
         /\ WaitsOnOracle(task.msg_text, task.conversationHistory, llmKey))
        => CanStart(req)

\* C14: a request the handler accepts mutates the state of its session once and
\* as one unit: the turn counter advances by exactly one, the evidence of the
\* turn is represented in the cumulative record and the classification of the
\* turn is stored; the state of every other session stays as it is, and a
\* request that is refused changes no session.
C14_OneMutationPerMessage ==
    [][served' = served + 1 =>
         \A s \in SessionIds :
            IF request'.authorized /\ request'.session_id = s
            THEN /\ s \in DOMAIN sessions'
                 /\ sessions'[s].message_count
                       = (IF s \in DOMAIN sessions THEN sessions[s].message_count ELSE 0) + 1
                 /\ Represented(request'.current_intel, sessions'[s].extracted_intelligence)
                 /\ ClassifiedAs(sessions'[s], request'.msg_text, request'.conversationHistory)
            ELSE /\ s \in DOMAIN sessions' <=> s \in DOMAIN sessions
                 /\ s \in DOMAIN sessions => sessions'[s] = sessions[s]]_vars

\* the second message of a session was handled: the counter is 2, the message
\* brought evidence, and its classification replaced a different one
C14_Witness ==
    /\ served = 2
    /\ request.authorized
    /\ request.session_id \in DOMAIN sessions
    /\ sessions[request.session_id].message_count = 2
    /\ request.current_intel.upiIds # <<>>
    /\ sessions[request.session_id].extracted_intelligence.phoneNumbers # <<>>
    /\ sessions[request.session_id].scam_confidence = 60

(***************************************************************************)
(* Properties of the extractors (checked under ExtractSpec).               *)
(***************************************************************************)
\* C15: no bankAccounts entry of the record extract_all returns has the
\* digit-only form of a phoneNumbers entry of that record.
C15_PhoneOverBank ==
    (xOp = "extract" /\ xOut.kind = "return")
    => \A b \in Range(xOut.value.bankAccounts), ph \in Range(xOut.value.phoneNumbers) :
           DigitsOf(b) # DigitsOf(ph)

\* C16: a text with an address local@provider, no dot after the @, yields the
\* payment handle and no email; a text with an address local@domain.tld yields
\* the email and no payment handle (the oracle not being asked).
C16_EmailOrHandle ==
    (xOp = "extract" /\ ~xKey)
    => /\ xArg = PyStr("pay me at scam@fakebank now")
          => /\ xOut.value.upiIds = <<"scam@fakebank">>
             /\ xOut.value.emailAddresses = <<>>
       /\ xArg = PyStr("contact fraud@fake-bank.com")
          => /\ xOut.value.emailAddresses = <<"fraud@fake-bank.com">>
             /\ xOut.value.upiIds = <<>>

(***************************************************************************)
(* Properties of detect_scam (checked under DetectSpec).                   *)
(***************************************************************************)
\* the analysis window built from the input: the text, then the texts of the
\* entries sent by the scammer, joined by spaces
WindowOf(input) ==
    Join(<<input.text>>
         \o [n \in 1..Len(SelectSeq(input.conversation_history, LAMBDA e : e.sender = "scammer")) |->
                SelectSeq(input.conversation_history, LAMBDA e : e.sender = "scammer")[n].text],
         " ")

\* the category and urgency patterns an input matches
MatchedSet(input) ==
    UNION {{<<t, n>> : n \in Range(MatchTable[WindowOf(input)][t])} :
              t \in DOMAIN MatchTable[WindowOf(input)]}

\* the weighted match count of a category, in tenths
WeightedScore(input, t) == SCAM_PATTERNS[t].weight * Len(MatchTable[WindowOf(input)][t])

\* the highest weighted match count, in tenths
WinningScore(input) ==
    CHOOSE v \in {WeightedScore(input, t) : t \in DOMAIN SCAM_PATTERNS} :
        \A t \in DOMAIN SCAM_PATTERNS : WeightedScore(input, t) <= v

\* the number of urgency patterns matched
UrgencyScore(input) == Len(MatchTable[WindowOf(input)].urgency)

\* min(0.99, 0.6 + 0.05 x (winningScore + urgencyScore)) in thousandths
Formula(input) == Min(990, 600 + 5 * (WinningScore(input) + 10 * UrgencyScore(input)))

\* C17: the confidence detect_scam returns lies in [0.6, 0.99], and an input
\* whose matched category and urgency patterns are a subset of those of another
\* input gets a confidence that is not higher.
C17_ConfidenceBoundedMonotone ==
    dOp = "detect"
    => /\ dOutX.confidence \in 60..99
       /\ dOutY.confidence \in 60..99
       /\ MatchedSet(dX) \subseteq MatchedSet(dY) => dOutX.confidence <= dOutY.confidence

\* one input matches strictly less than the other, which reaches the cap, and
\* more than nothing
C17_Witness ==
    /\ dOp = "detect"
    /\ MatchedSet(dX) # {}
    /\ MatchedSet(dX) \subseteq MatchedSet(dY)
    /\ MatchedSet(dX) # MatchedSet(dY)
    /\ dOutX.confidence \in 61..98
    /\ dOutY.confidence = 99
    /\ 600 + 5 * (WinningScore(dY) + 10 * UrgencyScore(dY)) > 990

\* C18 as stated: the confidence returned equals
\* min(0.99, 0.6 + 0.05 x (winningScore + urgencyScore)).
C18_ConfidenceFormula ==
    dOp = "detect" => 10 * dOutX.confidence = Formula(dX)

\* C18 amended: the confidence returned is that value rounded to two decimal
\* places: equal to it when it is a whole number of hundredths, one of the two
\* neighbouring hundredths when it lies half-way between them.
C18_ConfidenceRounded ==
    dOp = "detect"
    => IF Formula(dX) % 10 = 0
       THEN 10 * dOutX.confidence = Formula(dX)
       ELSE 10 * dOutX.confidence \in {Formula(dX) - 5, Formula(dX) + 5}

\* one input whose value lies half-way between two hundredths and is rounded
\* up, and one with keywords and an urgency term whose value is a whole number
\* of hundredths below the cap
C18_Witness ==
    /\ dOp = "detect"
    /\ Formula(dX) % 10 = 5
    /\ 10 * dOutX.confidence = Formula(dX) + 5
    /\ Formula(dY) % 10 = 0
    /\ Formula(dY) < 990
    /\ UrgencyScore(dY) > 0
    /\ WinningScore(dY) > 0

\* C19: the category assigned is the one with the highest weighted score, the
\* first in the order of declaration among those that share it, and
\* generic_scam when every score is zero.
C19_HighestScoreFirstDeclared ==
    dOp = "detect"
    => dOutX.scam_type =
          IF WinningScore(dX) = 0 THEN "generic_scam"
          ELSE ScamTypes[CHOOSE n \in 1..Len(ScamTypes) :
                            /\ WeightedScore(dX, ScamTypes[n]) = WinningScore(dX)
                            /\ \A m \in 1..(n - 1) :
                                  WeightedScore(dX, ScamTypes[m]) < WinningScore(dX)]

\* C20: what detect_scam returns is what the classifier gives for the window of
\* the text followed by the scammer's entries, and it is what detect_scam
\* returns for the history without the entries of every other sender: those
\* contribute to no score and no indicator.
C20_ScammerWindowOnly ==
    dOp = "detect"
    => /\ dOutX = Scored(MatchTable[WindowOf(dX)])
       /\ dOutX = detect_scam(dX.text, SelectSeq(dX.conversation_history,
                                                 LAMBDA e : e.sender = "scammer"))

\* one input with a reply of the honeypot's side that holds keywords and
\* changes nothing, one with an entry of the scammer that changes category,
\* confidence and indicators
C20_Witness ==
    /\ dOp = "detect"
    /\ \E n \in 1..Len(dX.conversation_history) :
          /\ dX.conversation_history[n].sender = "user"
          /\ Classify(dX.conversation_history[n].text).scam_type = "bank_fraud"
    /\ dOutX = detect_scam(dX.text, <<>>)
    /\ dOutX.scam_type = "generic_scam"
    /\ \E n \in 1..Len(dY.conversation_history) : dY.conversation_history[n].sender = "scammer"
    /\ dOutY.scam_type # detect_scam(dY.text, <<>>).scam_type
    /\ dOutY.confidence # detect_scam(dY.text, <<>>).confidence
    /\ dOutY.indicators # detect_scam(dY.text, <<>>).indicators

(***************************************************************************)
(* Properties of a turn's passes and of what it stores and reports         *)
(* (checked under Spec).                                                   *)
(***************************************************************************)
\* the entries, normalized, that the extractors yield for the message and for
\* the history entries sent by the scammer, in category k
CounterpartyYield(msg_text, conversationHistory, k) ==
    NormSet(RegexTable[msg_text][k])
    \cup UNION {NormSet(RegexTable[conversationHistory[n].text][k]) :
                   n \in {m \in 1..Len(conversationHistory) :
                             conversationHistory[m].sender = "scammer"}}

\* C21: what a turn contributes to the cumulative record comes from the message
\* and from the history entries of the scammer: an entry that the extractors
\* yield only for a history entry of another sender is not in the evidence the
\* turn merges into the record, and not in the record.
C21_CounterpartyTextsOnly ==
    request.authorized
    => \A n \in 1..Len(request.conversationHistory) :
          request.conversationHistory[n].sender # "scammer"
          => \A k \in Keys :
                \A e \in NormSet(RegexTable[request.conversationHistory[n].text][k]) :
                    \/ e \in CounterpartyYield(request.msg_text, request.conversationHistory, k)
                    \/ /\ e \notin NormSet(request.current_intel[k])
                       /\ e \notin NormSet(sessions[request.session_id].extracted_intelligence[k])

\* C22: after a processed turn the stored category, confidence and indicators
\* are those the classifier gives for the message and the history of that
\* turn, whatever was stored before; when the message matches no pattern and
\* the history holds no entry of the scammer they are the default category,
\* 0.6 and no indicator.
C22_ClassificationOverwritten ==
    request.authorized
    => /\ ClassifiedAs(sessions[request.session_id], request.msg_text,
                       request.conversationHistory)
       /\ (/\ \A n \in 1..Len(request.conversationHistory) :
                 request.conversationHistory[n].sender # "scammer"
           /\ \A t \in DOMAIN MatchTable[request.msg_text] :
                 MatchTable[request.msg_text][t] = <<>>)
          => /\ sessions[request.session_id].scam_type = "generic_scam"
             /\ sessions[request.session_id].scam_confidence = 60
             /\ sessions[request.session_id].scam_indicators = <<>>

\* the second turn of a session brought a message without a keyword and no
\* history, after a first turn with the urgent message that holds the phone
\* number: the stored confidence is back at 0.6
C22_Witness ==
    /\ request.authorized
    /\ request.msg_text = "ok"
    /\ request.conversationHistory = <<>>
    /\ sessions[request.session_id].message_count = 2
    /\ sessions[request.session_id].extracted_intelligence.phoneNumbers # <<>>
    /\ Scored(MatchTable["call +919876543210 urgent"]).confidence > 60
    /\ sessions[request.session_id].scam_confidence = 60
    /\ sessions[request.session_id].scam_indicators = <<>>

\* C28: the evidence record of a response for a session, the response of the
\* fail-open handler included, holds every entry that an earlier response for
\* the session returned.
C28_ResponsesKeepEvidence ==
    [][(served' = served + 1 /\ request'.authorized)
       => \A k \in Keys :
             Range(returned[request'.session_id][k])
                \subseteq Range(response'.body.extractedIntelligence[k])]_vars

\* C29: a turn for one session leaves the stored state of every other session
\* as it was: counter, evidence, classification and timestamps.
C29_OtherSessionsUnchanged ==
    [][\A s \in DOMAIN sessions :
          s # request'.session_id => (s \in DOMAIN sessions' /\ sessions'[s] = sessions[s])]_vars

\* a turn for a second session was handled, later than the turn of the first
\* session, which holds evidence and an earlier timestamp
C29_Witness ==
    /\ DOMAIN sessions = SessionIds
    /\ request.authorized
    /\ \E s \in SessionIds :
          /\ s # request.session_id
          /\ sessions[s].extracted_intelligence.phoneNumbers # <<>>
          /\ sessions[s].message_count = 1
          /\ sessions[s].last_message_time < sessions[request.session_id].start_time
          /\ sessions[request.session_id].extracted_intelligence.upiIds # <<>>

\* C23: the enrichment call is not retried: within a turn the oracle is
\* attempted at most once for a text, so that after a failed attempt the turn
\* contributes for that text what the extractors alone yield.
C23_OneAttemptPerText ==
    request.authorized
    => \A i \in 1..Len(request.oracle_calls), j \in 1..Len(request.oracle_calls) :
          i # j => request.oracle_calls[i] # request.oracle_calls[j]

\* the record of the extractors alone for an argument: the empty record for one
\* that is empty or no string
RegexOnly(arg) ==
    IF arg.py = "str" /\ arg.val # "" THEN RegexTable[arg.val] ELSE empty_intel

\* C24: the oracle takes part in extract_all only when a key is configured and
\* the text is longer than 20 characters: for an argument that is empty, no
\* string or at most 20 characters long, or without a key, the result is the
\* record of the extractors alone, whatever the oracle would answer.
C24_OracleOnlyWhenConfiguredAndLong ==
    (/\ xOp = "extract"
     /\ ~(xKey /\ xArg.py = "str" /\ Len(xArg.val) > 20))
    => xOut = Ret(RegexOnly(xArg))

\* a text of exactly 20 characters with the key set and an oracle that would
\* name payment handles: the result holds only what the extractors find
C24_Witness ==
    /\ xOp = "extract"
    /\ xKey
    /\ xArg.py = "str"
    /\ Len(xArg.val) = 20
    /\ xAnswer = Content("json", PyDict(<< <<"upiIds", Handles>> >>))
    /\ xOut.value.upiIds = <<"scam@fakebank">>

\* C25: after every processed turn the reported message-exchange count is twice
\* the session's turn counter, and the reported engagement duration is the
\* greatest of the time elapsed since the session was created, 12 seconds for
\* every turn counted and 1 second, so that it is never below 12 seconds for
\* every turn counted.  (Times of the session are in tenths of a second, the
\* reported duration is in seconds.)
C25_ReportedMetrics ==
    (/\ request.authorized
     /\ response.status_code = 200
     /\ request.session_id \in DOMAIN sessions)
    => /\ response.body.totalMessagesExchanged
             = 2 * sessions[request.session_id].message_count
       /\ response.body.engagementDurationSeconds * 10
             = Max(sessions[request.session_id].last_message_time
                      - sessions[request.session_id].start_time,
                   Max(120 * sessions[request.session_id].message_count, 10))
       /\ response.body.engagementDurationSeconds
             >= 12 * sessions[request.session_id].message_count

\* C26: phone over bank in the accumulated record: no entry of a session's
\* cumulative bankAccounts has the digit-only form of an entry of the session's
\* cumulative phoneNumbers.
C26_PhoneOverBankCumulative ==
    \A s \in DOMAIN sessions :
        \A b \in Range(sessions[s].extracted_intelligence.bankAccounts),
           ph \in Range(sessions[s].extracted_intelligence.phoneNumbers) :
            DigitsOf(b) # DigitsOf(ph)

\* C27: every entry of the evidence of a turn is yielded by one single text,
\* the message or one history entry: joining the texts creates no entry that
\* none of them yields on its own (for a turn that does not ask the oracle).
C27_EntriesFromSingleTexts ==
    (request.authorized /\ request.oracle_calls = <<>>)
    => \A k \in Keys :
          \A e \in Range(request.current_intel[k]) :
              \E t \in Range(all_texts_of(request.msg_text, request.conversationHistory)) :
                  e \in Range(RegexOnly(PyStr(t))[k])
====
